---- MODULE Spec2Model ----
(***************************************************************************)
(* repo-to-txt: the file-selection-and-serialization walker of package     *)
(* output (WriteRepoContentsToFile, shouldExcludeFile, readFileContent,    *)
(* writeFileContent, isBinary, FindFiles), util.Contains, and the part of  *)
(* run (package main) that produces the output file and the clipboard text.*)
(*                                                                         *)
(* A Go string or []byte is a sequence of bytes.  A byte is written as a   *)
(* one-character string; the null byte is "NUL" and the byte 0x89 "x89".   *)
(***************************************************************************)
EXTENDS Integers, Sequences, FiniteSets, TLC

VARIABLES
    sep,        \* os.PathSeparator of the host: "/" or "\\"
    cfg,        \* *config.Config: [ExcludeFolders, IncludeExt]
    tree,       \* the files below repoPath before the call
    outInRoot,  \* TRUE when outputFile is repoPath/output.txt
    pc,         \* position in WriteRepoContentsToFile
    todo,       \* filepath.Walk: entries still to visit, next first
    buf,        \* bytes held by the bufio.Writer
    disk,       \* bytes of the output file
    result,     \* return value: "none" (running), "ok" (nil), "error"
    visited,    \* log of the walk callback's calls, in order
    denied,     \* the first entry, if any, whose Lstat or directory listing fails
    fRel,       \* shouldExcludeFile applied on its own: the relPath argument
    fFolder,    \* ... whether its loop over ExcludeFolders found a match
    fVerdict,   \* ... and its return value: "true", "false" ("none" before the call)
    quota,      \* bytes the output file's device accepts: <<>> (no limit) or <<n>>
    werr,       \* the bufio.Writer's sticky error: TRUE once a write to the file failed
    err,        \* the error returned: its chain of messages, outermost first; <<>> is nil
    fileOps,    \* calls made on the output file and on its writer, in order
    fileNames,  \* FindFiles: the requested names (cfg.FileNames in run)
    fileMatches,  \* FindFiles: the map from name to paths
    returned,   \* FindFiles: its first result: "none" (running), "nil", "map"
    copyToClipboard,  \* run: cfg.CopyToClipboard
    clipboard,  \* run: <<text>> once clipboard.WriteAll(text) was called, <<>> before
    idx,        \* run: position of the loop over cfg.FileNames
    tempDir,    \* run: the temporary clone directory: "none", "exists", "removed"
    steps,      \* run: the steps before the mode branch that have succeeded, in order
    selLog,     \* run: log of the turns of the loop over cfg.FileNames
    args,       \* the command line: flag name -> <<>> (absent) or <<value>>
    conf,       \* the Config that ParseFlags and PromptForMissingInputs fill
    before,     \* the Config as it was when PromptForMissingInputs was called
    repoName    \* ExtractRepoName: <<>> before the call, then [name, err]

vars == <<sep, cfg, tree, outInRoot, pc, todo, buf, disk, result, visited,
          denied, fRel, fFolder, fVerdict, quota, werr, err, fileOps,
          fileNames, fileMatches, returned, copyToClipboard, clipboard, idx,
          tempDir, steps, selLog, args, conf, before, repoName>>

\* The variables of FindFiles, of run, and of the output writer's faults
findVars == <<fileNames, fileMatches, returned>>
confVars == <<args, conf, before, repoName>>
runVars == <<copyToClipboard, clipboard, idx, tempDir, steps, selLog, confVars>>
filterVars == <<fRel, fFolder, fVerdict>>
writerVars == <<buf, disk, werr, fileOps, quota>>
inputVars == <<sep, cfg, tree, outInRoot, denied>>

---------------------------------------------------------------------------
(* Bytes and strings *)

Upper == <<"A", "B", "C", "D", "E", "F", "G", "H", "I", "J", "K", "L", "M",
           "N", "O", "P", "Q", "R", "S", "T", "U", "V", "W", "X", "Y", "Z">>
Lower == <<"a", "b", "c", "d", "e", "f", "g", "h", "i", "j", "k", "l", "m",
           "n", "o", "p", "q", "r", "s", "t", "u", "v", "w", "x", "y", "z">>

\* The bytes that occur in file names, in increasing byte value.
ByteOrder == <<"\t", "\n", " ", "#", ".", "/", "=">> \o Upper \o <<"\\", "_">> \o Lower

Ord(c) == CHOOSE i \in 1..Len(ByteOrder) : ByteOrder[i] = c

Min(a, b) == IF a < b THEN a ELSE b

IsUpper(c) == \E i \in 1..26 : Upper[i] = c

ToLowerByte(c) == IF IsUpper(c) THEN Lower[CHOOSE i \in 1..26 : Upper[i] = c] ELSE c

\* strings.ToLower
ToLower(s) == [i \in 1..Len(s) |-> ToLowerByte(s[i])]

\* strings.EqualFold
EqualFold(s, t) == Len(s) = Len(t) /\ \A i \in 1..Len(s) : ToLowerByte(s[i]) = ToLowerByte(t[i])

\* strings.HasPrefix, strings.HasSuffix
HasPrefix(s, prefix) == Len(s) >= Len(prefix) /\ SubSeq(s, 1, Len(prefix)) = prefix

HasSuffix(s, suffix) ==
    Len(s) >= Len(suffix) /\ SubSeq(s, Len(s) - Len(suffix) + 1, Len(s)) = suffix

IsSpace(c) == c \in {" ", "\t", "\n", "\r"}

\* strings.TrimSpace
TrimSpace(s) ==
    LET keep == {i \in 1..Len(s) : ~IsSpace(s[i])}
    IN  IF keep = {} THEN <<>>
        ELSE LET lo == CHOOSE i \in keep : \A j \in keep : i <= j
                 hi == CHOOSE i \in keep : \A j \in keep : j <= i
             IN  SubSeq(s, lo, hi)

\* filepath.ToSlash: the host's separator replaced by '/'
ToSlash(s, hostSep) == [i \in 1..Len(s) |-> IF s[i] = hostSep THEN "/" ELSE s[i]]

\* os.IsPathSeparator
IsPathSeparator(c, hostSep) == IF hostSep = "\\" THEN c \in {"\\", "/"} ELSE c = "/"

\* filepath.Ext: the suffix from the final dot of the final path element
Ext(path, hostSep) ==
    LET seps == {i \in 1..Len(path) : IsPathSeparator(path[i], hostSep)}
        from == IF seps = {} THEN 1
                ELSE 1 + CHOOSE i \in seps : \A j \in seps : j <= i
        dots == {i \in from..Len(path) : path[i] = "."}
    IN  IF dots = {} THEN <<>>
        ELSE SubSeq(path, CHOOSE i \in dots : \A j \in dots : j <= i, Len(path))

\* filepath.Join / filepath.Rel on a path held as its sequence of elements
RECURSIVE JoinPath(_, _)
JoinPath(elems, hostSep) ==
    IF Len(elems) = 0 THEN <<>>
    ELSE IF Len(elems) = 1 THEN elems[1]
    ELSE elems[1] \o <<hostSep>> \o JoinPath(Tail(elems), hostSep)

---------------------------------------------------------------------------
(* Names, contents and policy entries used as inputs *)

n_main_go == <<"m", "a", "i", "n", ".", "g", "o">>
n_test_go == <<"t", "e", "s", "t", ".", "g", "o">>
n_image_png == <<"i", "m", "a", "g", "e", ".", "p", "n", "g">>
n_notebook_ipynb == <<"n", "o", "t", "e", "b", "o", "o", "k", ".", "i", "p", "y", "n", "b">>
n_Notes_IPYNB == <<"N", "o", "t", "e", "s", ".", "I", "P", "Y", "N", "B">>
n_output_txt == <<"o", "u", "t", "p", "u", "t", ".", "t", "x", "t">>
n_dotgit == <<".", "g", "i", "t">>
n_config == <<"c", "o", "n", "f", "i", "g">>
n_dotenv == <<".", "e", "n", "v">>
n_docs == <<"d", "o", "c", "s">>
n_README_md == <<"R", "E", "A", "D", "M", "E", ".", "m", "d">>
n_Main_GO == <<"M", "a", "i", "n", ".", "G", "O">>
n_Makefile == <<"M", "a", "k", "e", "f", "i", "l", "e">>
n_sub == <<"s", "u", "b">>
n_a_go == <<"a", ".", "g", "o">>
n_blob_go == <<"b", "l", "o", "b", ".", "g", "o">>
n_edge_go == <<"e", "d", "g", "e", ".", "g", "o">>
n_locked_go == <<"l", "o", "c", "k", "e", "d", ".", "g", "o">>
n_broken_go == <<"b", "r", "o", "k", "e", "n", ".", "g", "o">>
n_big_go == <<"b", "i", "g", ".", "g", "o">>
n_main == <<"m", "a", "i", "n">>
n_star_go == <<"*", ".", "g", "o">>

e_go == <<".", "g", "o">>
e_GO == <<".", "G", "O">>
e_nodot_go == <<"g", "o">>
e_md == <<".", "m", "d">>
e_png == <<".", "p", "n", "g">>
e_ipynb == <<".", "i", "p", "y", "n", "b">>
e_IPYNB == <<".", "I", "P", "Y", "N", "B">>

c_package_main == <<"p", "a", "c", "k", "a", "g", "e", " ", "m", "a", "i", "n", "\n">>
c_png == <<"x89", "P", "N", "G">>
c_cells == <<"{", "}">>
c_readme == <<"#", " ", "R", "E", "A", "D", "M", "E">>
c_hi == <<"h", "i", "\n">>

x_docs_padded == <<" ", " ", "d", "o", "c", "s", "\t">>
x_blank == <<" ", " ">>
x_docs_bs_sub == <<"d", "o", "c", "s", "\\", "s", "u", "b">>
x_docs_sl_sub == <<"d", "o", "c", "s", "/", "s", "u", "b">>
x_doc == <<"d", "o", "c">>
x_docs_slash == <<"d", "o", "c", "s", "/">>

p_docs_readme == <<"d", "o", "c", "s", "/", "r", "e", "a", "d", "m", "e", ".", "m", "d">>
p_documents_readme == <<"d", "o", "c", "u", "m", "e", "n", "t", "s", "/", "r", "e", "a", "d", "m", "e", ".", "m", "d">>
p_docs_bs_readme == <<"d", "o", "c", "s", "\\", "r", "e", "a", "d", "m", "e", ".", "m", "d">>
p_docs_sub_a == <<"d", "o", "c", "s", "/", "s", "u", "b", "/", "a", ".", "g", "o">>
p_docs_bs_sub_bs_a == <<"d", "o", "c", "s", "\\", "s", "u", "b", "\\", "a", ".", "g", "o">>
p_docs_sub_mixed == <<"d", "o", "c", "s", "/", "s", "u", "b", "\\", "a", ".", "g", "o">>
p_docsub == <<"d", "o", "c", "s", "/", "s", "u", "b", "w", "a", "y", ".", "g", "o">>
p_a_b_Makefile == <<"a", ".", "b", "/", "M", "a", "k", "e", "f", "i", "l", "e">>
p_x_ipynb == <<"x", ".", "i", "p", "y", "n", "b">>
p_dot == <<"n", "o", "t", "e", "s", ".">>

---------------------------------------------------------------------------
(* pkg/config, pkg/util *)

\* config.DefaultExcludedExt
DefaultExcludedExt == e_ipynb

\* A membership test that compares entries byte for byte
Contains_CaseSensitive(slice, item) == \E i \in 1..Len(slice) : slice[i] = item

\* util.Contains: case-insensitive membership
Contains(slice, item) == \E i \in 1..Len(slice) : EqualFold(slice[i], item)

---------------------------------------------------------------------------
(* Path Filter *)

\* A folder loop that tests the bare prefix, without the "/" after it
excludedByFolder_BarePrefix(relPath, c, hostSep) ==
    LET normalizedRelPath == ToSlash(relPath, hostSep)
        hit(i) == LET normalizedExclude == ToSlash(TrimSpace(c.ExcludeFolders[i]), hostSep)
                  IN  normalizedExclude # <<>> /\ HasPrefix(normalizedRelPath, normalizedExclude)
        hits == {i \in 1..Len(c.ExcludeFolders) : hit(i)}
    IN  IF hits = {} THEN 0 ELSE CHOOSE i \in hits : \A j \in hits : i <= j

\* shouldExcludeFile, the loop over cfg.ExcludeFolders: the index of the first
\* entry that excludes relPath, 0 when none does.
excludedByFolder(relPath, c, hostSep) ==
    LET normalizedRelPath == ToSlash(relPath, hostSep)
        hit(i) == LET normalizedExclude == ToSlash(TrimSpace(c.ExcludeFolders[i]), hostSep)
                  IN  /\ normalizedExclude # <<>>
                      /\ \/ HasPrefix(normalizedRelPath, normalizedExclude \o <<"/">>)
                         \/ normalizedRelPath = normalizedExclude
        hits == {i \in 1..Len(c.ExcludeFolders) : hit(i)}
    IN  IF hits = {} THEN 0 ELSE CHOOSE i \in hits : \A j \in hits : i <= j

\* A filter that consults the allow-list before the folder rule
shouldExcludeFile_ExtFirst(relPath, c, hostSep) ==
    IF Len(c.IncludeExt) > 0 /\ Contains(c.IncludeExt, ToLower(Ext(relPath, hostSep))) THEN FALSE
    ELSE IF Len(c.IncludeExt) > 0 THEN TRUE
    ELSE IF excludedByFolder(relPath, c, hostSep) # 0 THEN TRUE
    ELSE HasSuffix(ToLower(relPath), DefaultExcludedExt)

\* A filter that applies the built-in rule under an allow-list too
shouldExcludeFile_AlwaysDefault(relPath, c, hostSep) ==
    \/ excludedByFolder(relPath, c, hostSep) # 0
    \/ Len(c.IncludeExt) > 0 /\ ~Contains(c.IncludeExt, ToLower(Ext(relPath, hostSep)))
    \/ HasSuffix(ToLower(relPath), DefaultExcludedExt)

shouldExcludeFile(relPath, c, hostSep) ==
    IF excludedByFolder(relPath, c, hostSep) # 0 THEN TRUE
    ELSE IF Len(c.IncludeExt) > 0
         THEN ~Contains(c.IncludeExt, ToLower(Ext(relPath, hostSep)))
         ELSE HasSuffix(ToLower(relPath), DefaultExcludedExt)

---------------------------------------------------------------------------
(* Binary Sniffer, Content Reader, Formatter *)

\* readFileContent: buf := make([]byte, 512)
SniffLen == 512

\* bufio.NewWriter(file): the writer's buffer size (bufio's default)
BufSize == 4096

Rep(c, n) == [i \in 1..n |-> c]

\* isBinary: bytes.IndexByte(data, 0) != -1
isBinary(data) == \E i \in 1..Len(data) : data[i] = "NUL"

\* A reader that looks for a null byte in the whole file
readFileContent_SniffAll(f) ==
    IF f.perm = "noopen" THEN [err |-> "open", content |-> <<>>]
    ELSE IF f.perm = "readerr" THEN [err |-> "read", content |-> <<>>]
    ELSE IF isBinary(f.content) THEN [err |-> "binary file", content |-> <<>>]
    ELSE [err |-> "nil", content |-> f.content]

\* readFileContent on a file f = [path, content, perm]: os.Open, one Read of
\* up to 512 bytes, isBinary on what was read, Seek(0), io.ReadAll.
readFileContent(f) ==
    IF f.perm = "noopen" THEN [err |-> "open", content |-> <<>>]
    ELSE IF f.perm = "readerr" THEN [err |-> "read", content |-> <<>>]
    ELSE LET n == Min(SniffLen, Len(f.content))
         IN  IF isBinary(SubSeq(f.content, 1, n))
             THEN [err |-> "binary file", content |-> <<>>]
             ELSE [err |-> "nil", content |-> f.content]

\* An error value: the chain of its messages, outermost first, each with the
\* paths the message names.  errors.New(msg) and fmt.Errorf(msg + ": %w", cause)
New(msg) == <<[msg |-> msg, paths |-> {}]>>

Errorf(msg, paths, cause) == <<[msg |-> msg, paths |-> paths]>> \o cause

\* The causes the operating system reports
ErrAccess == New("lstat or open of the entry failed")
ErrCreate == New("open of the output file failed")
ErrWrite == New("write to the output file failed")

\* file.Write(p) on the output file holding d: the bytes the device still
\* accepts are written; the write fails when they are not all of p.
FileWrite(d, p) ==
    LET n == IF quota = <<>> THEN Len(p)
             ELSE Min(Len(p), IF quota[1] > Len(d) THEN quota[1] - Len(d) ELSE 0)
    IN  [disk |-> d \o SubSeq(p, 1, n), n |-> n, failed |-> n < Len(p)]

\* bufio.Writer.Flush on w = [buf, disk, err]: nothing after an earlier error
\* or with an empty buffer; otherwise one write of the buffer to the file, the
\* bytes not written staying in the buffer.
BufFlush(w) ==
    IF w.err \/ Len(w.buf) = 0 THEN w
    ELSE LET r == FileWrite(w.disk, w.buf)
         IN  [buf |-> SubSeq(w.buf, r.n + 1, Len(w.buf)), disk |-> r.disk, err |-> r.failed]

\* bufio.Writer.Write / WriteString of p: nothing after an earlier error; p is
\* copied to the buffer while it fits; a full buffer is flushed to the file,
\* and a write larger than the empty buffer goes to the file directly.
BufWrite(w, p) ==
    IF w.err THEN w
    ELSE IF Len(p) <= BufSize - Len(w.buf) THEN [w EXCEPT !.buf = w.buf \o p]
    ELSE IF Len(w.buf) = 0
         THEN LET r == FileWrite(w.disk, p)
              IN  [buf |-> <<>>, disk |-> r.disk, err |-> r.failed]
    ELSE LET k    == BufSize - Len(w.buf)
             f    == BufFlush([w EXCEPT !.buf = w.buf \o SubSeq(p, 1, k)])
             rest == SubSeq(p, k + 1, Len(p))
         IN  IF f.err THEN f
             ELSE IF Len(rest) > BufSize
                  THEN LET r == FileWrite(f.disk, rest)
                       IN  [buf |-> <<>>, disk |-> r.disk, err |-> r.failed]
                  ELSE [f EXCEPT !.buf = rest]

\* A formatter that ends the record with one newline
writeFileContent_OneNewline(w, relPath, content) ==
    LET separator == <<"=", "=", "=", " ">> \o relPath \o <<" ", "=", "=", "=", "\n">>
        w1 == BufWrite(w, separator)
        w2 == BufWrite(w1, content)
        w3 == BufWrite(w2, <<"\n">>)
    IN  IF w1.err THEN [w |-> w1, err |-> Errorf("error writing to output file", {}, ErrWrite)]
        ELSE IF w2.err THEN [w |-> w2, err |-> Errorf("error writing file content", {}, ErrWrite)]
        ELSE IF w3.err THEN [w |-> w3, err |-> Errorf("error writing newline to output file", {}, ErrWrite)]
        ELSE [w |-> w3, err |-> <<>>]

\* writeFileContent: "=== %s ===\n", the content, "\n\n"; the first write
\* that fails ends it with that error.
writeFileContent(w, relPath, content) ==
    LET separator == <<"=", "=", "=", " ">> \o relPath \o <<" ", "=", "=", "=", "\n">>
        w1 == BufWrite(w, separator)
        w2 == BufWrite(w1, content)
        w3 == BufWrite(w2, <<"\n", "\n">>)
    IN  IF w1.err THEN [w |-> w1, err |-> Errorf("error writing to output file", {}, ErrWrite)]
        ELSE IF w2.err THEN [w |-> w2, err |-> Errorf("error writing file content", {}, ErrWrite)]
        ELSE IF w3.err THEN [w |-> w3, err |-> Errorf("error writing newline to output file", {}, ErrWrite)]
        ELSE [w |-> w3, err |-> <<>>]

---------------------------------------------------------------------------
(* Inputs of the walker: directory trees, policies, hosts *)

\* Bounds of the model
MaxFiles == 2

File(path, content, perm) == [path |-> path, content |-> content, perm |-> perm]

\* Files a tree is built from.  A path is the sequence of its elements below
\* repoPath; perm "noopen" makes os.Open fail, "readerr" makes file.Read fail.
FilePool ==
    { File(<<n_main_go>>, c_package_main, "ok"),
      File(<<n_test_go>>, c_package_main, "ok"),
      File(<<n_image_png>>, c_png, "ok"),
      File(<<n_notebook_ipynb>>, c_cells, "ok"),
      File(<<n_dotgit, n_config>>, c_hi, "ok"),
      File(<<n_dotenv>>, c_hi, "ok"),
      File(<<n_docs, n_README_md>>, c_readme, "ok"),
      File(<<n_sub, n_a_go>>, c_package_main, "ok"),
      File(<<n_blob_go>>, Rep("a", SniffLen) \o <<"NUL", "b">>, "ok"),
      File(<<n_edge_go>>, Rep("a", SniffLen - 1) \o <<"NUL">>, "ok"),
      File(<<n_locked_go>>, c_package_main, "noopen"),
      File(<<n_broken_go>>, c_package_main, "readerr") }

Trees == {S \in SUBSET FilePool : Cardinality(S) <= MaxFiles}

Policy(exclude, include) == [ExcludeFolders |-> exclude, IncludeExt |-> include]

WalkPolicies ==
    { Policy(<<>>, <<>>),
      Policy(<<>>, <<e_go>>),
      Policy(<<>>, <<e_go, e_png>>),
      Policy(<<n_docs>>, <<e_go, e_md>>),
      Policy(<<n_docs>>, <<>>) }

Seps == {"/", "\\"}

\* The output file when it is created inside repoPath
OutPath == <<n_output_txt>>

---------------------------------------------------------------------------
(* The file system as filepath.Walk sees it *)

IsProperPrefix(p, q) == Len(q) > Len(p) /\ SubSeq(q, 1, Len(p)) = p

PathsOf(t, inRoot) == {f.path : f \in t} \cup (IF inRoot THEN {OutPath} ELSE {})

DirsOf(t, inRoot) ==
    {<<>>} \cup UNION {{SubSeq(q, 1, k) : k \in 1..(Len(q) - 1)} : q \in PathsOf(t, inRoot)}

IsDir(p) == p = <<>> \/ \E q \in PathsOf(tree, outInRoot) : IsProperPrefix(p, q)

\* info.Name()
BaseName(p) == IF p = <<>> THEN <<"r", "o", "o", "t">> ELSE p[Len(p)]

\* The file at path p as os.Open finds it; the output file holds what has
\* been flushed to it so far.
FileAt(p) ==
    IF outInRoot /\ p = OutPath THEN File(p, disk, "ok")
    ELSE CHOOSE f \in tree : f.path = p

StrLess(a, b) ==
    \E k \in 1..(Min(Len(a), Len(b)) + 1) :
        /\ SubSeq(a, 1, k - 1) = SubSeq(b, 1, k - 1)
        /\ \/ k > Len(a) /\ k <= Len(b)
           \/ k <= Len(a) /\ k <= Len(b) /\ Ord(a[k]) < Ord(b[k])

RECURSIVE SortNames(_)
SortNames(S) ==
    IF S = {} THEN <<>>
    ELSE LET m == CHOOSE x \in S : \A y \in S \ {x} : StrLess(x, y)
         IN  <<m>> \o SortNames(S \ {m})

\* A directory listing in descending order
readDirNames_Descending(dir) ==
    LET names  == {q[Len(dir) + 1] : q \in {r \in PathsOf(tree, outInRoot) : IsProperPrefix(dir, r)}}
        sorted == SortNames(names)
    IN  [i \in 1..Len(sorted) |-> Append(dir, sorted[Len(sorted) + 1 - i])]

\* readDirNames(dir), each name joined to dir: the entries of dir, sorted
readDirNames(dir) ==
    LET names  == {q[Len(dir) + 1] : q \in {r \in PathsOf(tree, outInRoot) : IsProperPrefix(dir, r)}}
        sorted == SortNames(names)
    IN  [i \in 1..Len(sorted) |-> Append(dir, sorted[i])]

---------------------------------------------------------------------------
(* WriteRepoContentsToFile *)

Visit(path, outcome, content) == [path |-> path, outcome |-> outcome, content |-> content]

\* A callback that returns the error of readFileContent instead of nil
walkFn_SkipIsFatal(path, w) ==
    LET relPath == JoinPath(path, sep)
    IN  IF HasPrefix(BaseName(path), <<".">>)
        THEN [ret |-> "nil", outcome |-> "hidden", content |-> <<>>, w |-> w, err |-> <<>>]
        ELSE IF shouldExcludeFile(relPath, cfg, sep)
        THEN [ret |-> "nil", outcome |-> "excluded", content |-> <<>>, w |-> w, err |-> <<>>]
        ELSE LET r == readFileContent(FileAt(path))
             IN  IF r.err # "nil"
                 THEN [ret |-> "error", outcome |-> "skipped", content |-> <<>>, w |-> w,
                       err |-> New(r.err)]
                 ELSE LET x == writeFileContent(w, relPath, r.content)
                      IN  IF x.err = <<>>
                          THEN [ret |-> "nil", outcome |-> "emitted", content |-> r.content,
                                w |-> x.w, err |-> <<>>]
                          ELSE [ret |-> "error", outcome |-> "writefail", content |-> r.content,
                                w |-> x.w, err |-> x.err]

\* A callback that writes the separator before it reads the file
walkFn_SeparatorFirst(path, w) ==
    LET relPath == JoinPath(path, sep)
        w0      == BufWrite(w, <<"=", "=", "=", " ">> \o relPath \o <<" ", "=", "=", "=", "\n">>)
    IN  IF HasPrefix(BaseName(path), <<".">>)
        THEN [ret |-> "nil", outcome |-> "hidden", content |-> <<>>, w |-> w, err |-> <<>>]
        ELSE IF shouldExcludeFile(relPath, cfg, sep)
        THEN [ret |-> "nil", outcome |-> "excluded", content |-> <<>>, w |-> w, err |-> <<>>]
        ELSE LET r == readFileContent(FileAt(path))
             IN  IF r.err # "nil"
                 THEN [ret |-> "nil", outcome |-> "skipped", content |-> <<>>, w |-> w0,
                       err |-> <<>>]
                 ELSE LET x == writeFileContent(w, relPath, r.content)
                      IN  IF x.err = <<>>
                          THEN [ret |-> "nil", outcome |-> "emitted", content |-> r.content,
                                w |-> x.w, err |-> <<>>]
                          ELSE [ret |-> "error", outcome |-> "writefail", content |-> r.content,
                                w |-> x.w, err |-> x.err]

\* The walk callback on a file: what it does with the entry and the writer,
\* and what it returns.  outcome "hidden": the name starts with '.';
\* "excluded": shouldExcludeFile; "skipped": readFileContent failed (logged);
\* "emitted": a record was written; "writefail": writeFileContent failed.
walkFn(path, w) ==
    LET relPath == JoinPath(path, sep)
    IN  IF HasPrefix(BaseName(path), <<".">>)
        THEN [ret |-> "nil", outcome |-> "hidden", content |-> <<>>, w |-> w, err |-> <<>>]
        ELSE IF shouldExcludeFile(relPath, cfg, sep)
        THEN [ret |-> "nil", outcome |-> "excluded", content |-> <<>>, w |-> w, err |-> <<>>]
        ELSE LET r == readFileContent(FileAt(path))
             IN  IF r.err # "nil"
                 THEN [ret |-> "nil", outcome |-> "skipped", content |-> <<>>, w |-> w,
                       err |-> <<>>]
                 ELSE LET x == writeFileContent(w, relPath, r.content)
                      IN  IF x.err = <<>>
                          THEN [ret |-> "nil", outcome |-> "emitted", content |-> r.content,
                                w |-> x.w, err |-> <<>>]
                          ELSE [ret |-> "error", outcome |-> "writefail", content |-> r.content,
                                w |-> x.w, err |-> x.err]

\* os.Create(outputFile) succeeds: the file is created or truncated, a
\* writer is put over it, and filepath.Walk starts with the root.
Create ==
    /\ pc = "create"
    /\ disk' = <<>>
    /\ buf' = <<>>
    /\ werr' = FALSE
    /\ fileOps' = <<"Create">>
    /\ todo' = << <<>> >>
    /\ pc' = "walking"
    /\ UNCHANGED <<sep, cfg, tree, outInRoot, denied, result, visited, fRel, fFolder, fVerdict,
                   quota, err, findVars, runVars>>

\* os.Create(outputFile) fails: the error is returned at once.
CreateFails ==
    /\ pc = "create"
    /\ result' = "error"
    /\ err' = Errorf("unable to create output file", {}, ErrCreate)
    /\ pc' = "done"
    /\ UNCHANGED <<sep, cfg, tree, outInRoot, denied, todo, buf, disk, visited, fRel, fFolder,
                   fVerdict, quota, werr, fileOps, findVars, runVars>>

\* A walk that logs the entry it cannot access and goes on
WalkDenied_LogAndContinue ==
    /\ pc = "walking"
    /\ todo # <<>>
    /\ Head(todo) \in denied
    /\ visited' = Append(visited, Visit(Head(todo), "fatal", <<>>))
    /\ todo' = Tail(todo)
    /\ UNCHANGED <<sep, cfg, tree, outInRoot, denied, pc, result, err, buf, disk, fRel, fFolder,
                   fVerdict, quota, werr, fileOps, findVars, runVars>>

\* A walk whose error return leaves without the flush
WalkDenied_NoFlush ==
    /\ pc = "walking"
    /\ todo # <<>>
    /\ Head(todo) \in denied
    /\ visited' = Append(visited, Visit(Head(todo), "fatal", <<>>))
    /\ result' = "error"
    /\ err' = Errorf("error walking the path", {<<>>},
                     Errorf("error accessing path", {Head(todo)}, ErrAccess))
    /\ pc' = "close"
    /\ UNCHANGED <<sep, cfg, tree, outInRoot, denied, todo, buf, disk, fRel, fFolder, fVerdict,
                   quota, werr, fileOps, findVars, runVars>>

\* Lstat or readDirNames of the next entry fails: the callback is called with
\* the error and returns it wrapped with the entry's path, which ends the
\* walk; WriteRepoContentsToFile wraps it again with repoPath.
WalkDenied ==
    /\ pc = "walking"
    /\ todo # <<>>
    /\ Head(todo) \in denied
    /\ visited' = Append(visited, Visit(Head(todo), "fatal", <<>>))
    /\ result' = "error"
    /\ err' = Errorf("error walking the path", {<<>>},
                     Errorf("error accessing path", {Head(todo)}, ErrAccess))
    /\ pc' = "flush"
    /\ UNCHANGED <<sep, cfg, tree, outInRoot, denied, todo, buf, disk, fRel, fFolder, fVerdict,
                   quota, werr, fileOps, findVars, runVars>>

\* A walk that does not descend into the directories it meets
WalkDir_NoDescent ==
    /\ pc = "walking"
    /\ todo # <<>>
    /\ Head(todo) \notin denied
    /\ IsDir(Head(todo))
    /\ visited' = Append(visited, Visit(Head(todo), "dir", <<>>))
    /\ todo' = IF Head(todo) = <<>> THEN readDirNames(Head(todo)) ELSE Tail(todo)
    /\ UNCHANGED <<sep, cfg, tree, outInRoot, denied, pc, buf, disk, result, fRel, fFolder,
                   fVerdict, quota, werr, err, fileOps, findVars, runVars>>

\* The next entry is a directory: the callback returns nil and the walk goes
\* on with the directory's entries in lexical order.
WalkDir ==
    /\ pc = "walking"
    /\ todo # <<>>
    /\ Head(todo) \notin denied
    /\ IsDir(Head(todo))
    /\ visited' = Append(visited, Visit(Head(todo), "dir", <<>>))
    /\ todo' = readDirNames(Head(todo)) \o Tail(todo)
    /\ UNCHANGED <<sep, cfg, tree, outInRoot, denied, pc, buf, disk, result, fRel, fFolder,
                   fVerdict, quota, werr, err, fileOps, findVars, runVars>>

\* The next entry is a file: the callback filters, reads and writes it; an
\* error it returns ends the walk and is returned wrapped with repoPath.
WalkFile ==
    /\ pc = "walking"
    /\ todo # <<>>
    /\ Head(todo) \notin denied
    /\ ~IsDir(Head(todo))
    /\ LET r == walkFn(Head(todo), [buf |-> buf, disk |-> disk, err |-> werr])
       IN  /\ visited' = Append(visited, Visit(Head(todo), r.outcome, r.content))
           /\ buf' = r.w.buf
           /\ disk' = r.w.disk
           /\ werr' = r.w.err
           /\ IF r.ret = "nil"
              THEN todo' = Tail(todo) /\ UNCHANGED <<pc, result, err>>
              ELSE /\ todo' = todo
                   /\ pc' = "flush"
                   /\ result' = "error"
                   /\ err' = Errorf("error walking the path", {<<>>}, r.err)
    /\ UNCHANGED <<sep, cfg, tree, outInRoot, denied, fRel, fFolder, fVerdict, quota, fileOps,
                   findVars, runVars>>

\* filepath.Walk returns nil: WriteRepoContentsToFile returns nil.
WalkDone ==
    /\ pc = "walking"
    /\ todo = <<>>
    /\ result' = "ok"
    /\ pc' = "flush"
    /\ UNCHANGED <<sep, cfg, tree, outInRoot, denied, todo, buf, disk, visited, fRel, fFolder,
                   fVerdict, quota, werr, err, fileOps, findVars, runVars>>

\* defer writer.Flush(): runs first on return; its error is dropped.
Flush ==
    /\ pc = "flush"
    /\ LET w == BufFlush([buf |-> buf, disk |-> disk, err |-> werr])
       IN  buf' = w.buf /\ disk' = w.disk /\ werr' = w.err
    /\ fileOps' = Append(fileOps, "Flush")
    /\ pc' = "close"
    /\ UNCHANGED <<sep, cfg, tree, outInRoot, denied, todo, result, visited, fRel, fFolder,
                   fVerdict, quota, err, findVars, runVars>>

\* defer file.Close(): runs last on return; its error is dropped.
Close ==
    /\ pc = "close"
    /\ fileOps' = Append(fileOps, "Close")
    /\ pc' = "done"
    /\ UNCHANGED <<sep, cfg, tree, outInRoot, denied, todo, buf, disk, result, visited, fRel,
                   fFolder, fVerdict, quota, werr, err, findVars, runVars>>

\* make(map[string][]string)
EmptyMap == [k \in {} |-> <<>>]

\* The state of the parts of the program a call does not use
FilterIdle == fRel = <<>> /\ fFolder = FALSE /\ fVerdict = "none"
FinderIdle == fileNames = <<>> /\ fileMatches = EmptyMap /\ returned = "none"
ConfIdle == args = <<>> /\ conf = <<>> /\ before = <<>> /\ repoName = <<>>
RunIdle ==
    /\ copyToClipboard = FALSE
    /\ clipboard = <<>>
    /\ idx = 0
    /\ tempDir = "none"
    /\ steps = <<>>
    /\ selLog = <<>>
    /\ ConfIdle
WriterIdle == buf = <<>> /\ disk = <<>> /\ werr = FALSE /\ fileOps = <<>>

Init ==
    /\ sep \in Seps
    /\ cfg \in WalkPolicies
    /\ tree \in Trees
    /\ outInRoot \in BOOLEAN
    /\ denied \in {{}} \cup {{p} : p \in PathsOf(tree, FALSE) \cup DirsOf(tree, FALSE)}
    /\ quota = <<>>
    /\ pc = "create"
    /\ todo = <<>>
    /\ result = "none"
    /\ err = <<>>
    /\ visited = <<>>
    /\ WriterIdle
    /\ FilterIdle
    /\ FinderIdle
    /\ RunIdle

Next ==
    \/ Create
    \/ CreateFails
    \/ WalkDenied
    \/ WalkDir
    \/ WalkFile
    \/ WalkDone
    \/ Flush
    \/ Close

Spec == Init /\ [][Next]_vars

---------------------------------------------------------------------------
(* WriteRepoContentsToFile on a device that runs out of space *)

\* Trees with a file larger than the writer's buffer
FaultPool ==
    { File(<<n_main_go>>, c_package_main, "ok"),
      File(<<n_sub, n_a_go>>, c_package_main, "ok"),
      File(<<n_big_go>>, Rep("a", BufSize + 4), "ok") }

FaultTrees == {S \in SUBSET FaultPool : Cardinality(S) <= MaxFiles}

\* No limit, a full device, a device with room for 20 bytes
Quotas == {<<>>, <<0>>, <<20>>}

InitDiskFull ==
    /\ sep \in Seps
    /\ cfg = Policy(<<>>, <<>>)
    /\ tree \in FaultTrees
    /\ outInRoot \in BOOLEAN
    /\ denied \in {{}} \cup {{p} : p \in PathsOf(tree, FALSE) \cup DirsOf(tree, FALSE)}
    /\ quota \in Quotas
    /\ pc = "create"
    /\ todo = <<>>
    /\ result = "none"
    /\ err = <<>>
    /\ visited = <<>>
    /\ WriterIdle
    /\ FilterIdle
    /\ FinderIdle
    /\ RunIdle

SpecDiskFull == InitDiskFull /\ [][Next]_vars

---------------------------------------------------------------------------
(* FindFiles *)

\* The callback's loop over fileNames for the file called name at path: path
\* is appended under every requested name that equals name ignoring case.
RECURSIVE matchNames(_, _, _, _)
matchNames(m, names, name, path) ==
    IF names = <<>> THEN m
    ELSE LET fileName == Head(names)
             m1 == IF EqualFold(name, fileName)
                   THEN [k \in DOMAIN m \cup {fileName} |->
                            IF k = fileName
                            THEN (IF fileName \in DOMAIN m THEN m[fileName] ELSE <<>>) \o <<path>>
                            ELSE m[k]]
                   ELSE m
         IN  matchNames(m1, Tail(names), name, path)

\* An empty name list that yields an empty map and no error
FindEmpty_EmptyMap ==
    /\ pc = "find"
    /\ Len(fileNames) = 0
    /\ returned' = "map"
    /\ result' = "ok"
    /\ pc' = "found"
    /\ UNCHANGED <<inputVars, writerVars, filterVars, runVars, todo, visited, err, fileNames,
                   fileMatches>>

\* len(fileNames) == 0: nil and an error are returned at once.
FindEmpty ==
    /\ pc = "find"
    /\ Len(fileNames) = 0
    /\ returned' = "nil"
    /\ result' = "error"
    /\ err' = New("no file names provided to search for")
    /\ pc' = "found"
    /\ UNCHANGED <<inputVars, writerVars, filterVars, runVars, todo, visited, fileNames,
                   fileMatches>>

\* The map is made and filepath.Walk starts with the root.
FindStart ==
    /\ pc = "find"
    /\ Len(fileNames) > 0
    /\ fileMatches' = EmptyMap
    /\ todo' = << <<>> >>
    /\ pc' = "finding"
    /\ UNCHANGED <<inputVars, writerVars, filterVars, runVars, visited, result, err, fileNames,
                   returned>>

\* A find that gives up at the first entry it cannot access
FindDenied_Fatal ==
    /\ pc = "finding"
    /\ todo # <<>>
    /\ Head(todo) \in denied
    /\ visited' = Append(visited, Visit(Head(todo), "logged", <<>>))
    /\ returned' = "nil"
    /\ result' = "error"
    /\ err' = Errorf("error walking the path", {<<>>}, ErrAccess)
    /\ pc' = "found"
    /\ UNCHANGED <<inputVars, writerVars, filterVars, runVars, todo, fileNames, fileMatches>>

\* Lstat or readDirNames of the next entry fails: the callback logs the error
\* and returns nil; the walk goes on with the entry's siblings.
FindDenied ==
    /\ pc = "finding"
    /\ todo # <<>>
    /\ Head(todo) \in denied
    /\ visited' = Append(visited, Visit(Head(todo), "logged", <<>>))
    /\ todo' = Tail(todo)
    /\ UNCHANGED <<inputVars, writerVars, filterVars, runVars, pc, result, err, findVars>>

\* The next entry is a directory: the callback returns nil and the walk goes
\* on with the directory's entries in lexical order.
FindDir ==
    /\ pc = "finding"
    /\ todo # <<>>
    /\ Head(todo) \notin denied
    /\ IsDir(Head(todo))
    /\ visited' = Append(visited, Visit(Head(todo), "dir", <<>>))
    /\ todo' = readDirNames(Head(todo)) \o Tail(todo)
    /\ UNCHANGED <<inputVars, writerVars, filterVars, runVars, pc, result, err, findVars>>

\* The next entry is a file: one whose name starts with '.' is passed over
\* ("hidden"), any other is compared with the requested names ("file").
FindFile ==
    /\ pc = "finding"
    /\ todo # <<>>
    /\ Head(todo) \notin denied
    /\ ~IsDir(Head(todo))
    /\ IF HasPrefix(BaseName(Head(todo)), <<".">>)
       THEN /\ visited' = Append(visited, Visit(Head(todo), "hidden", <<>>))
            /\ UNCHANGED fileMatches
       ELSE /\ visited' = Append(visited, Visit(Head(todo), "file", <<>>))
            /\ fileMatches' = matchNames(fileMatches, fileNames, BaseName(Head(todo)), Head(todo))
    /\ todo' = Tail(todo)
    /\ UNCHANGED <<inputVars, writerVars, filterVars, runVars, pc, result, err, fileNames,
                   returned>>

\* filepath.Walk returns nil (the callback never returns an error): the map
\* and nil are returned.
FindDone ==
    /\ pc = "finding"
    /\ todo = <<>>
    /\ returned' = "map"
    /\ result' = "ok"
    /\ pc' = "found"
    /\ UNCHANGED <<inputVars, writerVars, filterVars, runVars, todo, visited, err, fileNames,
                   fileMatches>>

\* Trees with equal base names in several places, in several spellings
FindPool ==
    { File(<<n_main_go>>, c_package_main, "ok"),
      File(<<n_Main_GO>>, c_package_main, "ok"),
      File(<<n_sub, n_main_go>>, c_hi, "ok"),
      File(<<n_dotgit, n_config>>, c_hi, "ok"),
      File(<<n_dotenv>>, c_hi, "ok"),
      File(<<n_image_png>>, <<"NUL">> \o c_png, "ok"),
      File(<<n_docs, n_README_md>>, c_readme, "ok") }

FindTrees == {S \in SUBSET FindPool : Cardinality(S) <= MaxFiles}

\* Name lists as util.ParseCommaSeparated leaves them: trimmed and not empty
NameLists ==
    { <<>>, <<n_main_go>>, <<n_Main_GO>>, <<n_config>>, <<n_dotenv>>, <<n_main>>,
      <<n_star_go>>, <<n_Makefile>>, <<n_README_md, n_main_go>>, <<n_main_go, n_Main_GO>>,
      <<n_main_go, n_main_go>> }

InitFind ==
    /\ sep \in Seps
    /\ cfg \in {Policy(<<>>, <<>>), Policy(<<n_docs>>, <<e_go>>)}
    /\ tree \in FindTrees
    /\ outInRoot = FALSE
    /\ denied \in {{}} \cup {{p} : p \in PathsOf(tree, FALSE) \cup DirsOf(tree, FALSE)}
    /\ quota = <<>>
    /\ pc = "find"
    /\ todo = <<>>
    /\ result = "none"
    /\ err = <<>>
    /\ visited = <<>>
    /\ WriterIdle
    /\ FilterIdle
    /\ fileNames \in NameLists
    /\ fileMatches = EmptyMap
    /\ returned = "none"
    /\ RunIdle

NextFind ==
    \/ FindEmpty
    \/ FindStart
    \/ FindDenied
    \/ FindDir
    \/ FindFile
    \/ FindDone

SpecFind == InitFind /\ [][NextFind]_vars

---------------------------------------------------------------------------
(* run, from the cloned repository to the clipboard *)

\* The steps of run before the mode branch: cfg.ParseFlags,
\* prompt.PromptForMissingInputs, clone.ExtractRepoName, os.MkdirTemp,
\* auth.SetupAuth, clone.CloneOrPullRepo
EarlySteps == <<"flags", "prompt", "name", "mkdirtemp", "auth", "clone">>

\* A run that creates the output file as soon as its name is known
RunStep_CreateFirst ==
    /\ \E k \in 1..Len(EarlySteps) :
          /\ pc = EarlySteps[k]
          /\ pc' = IF k < Len(EarlySteps) THEN EarlySteps[k + 1] ELSE "run"
    /\ steps' = Append(steps, pc)
    /\ tempDir' = IF pc = "mkdirtemp" THEN "exists" ELSE tempDir
    /\ disk' = IF pc = "name" THEN <<>> ELSE disk
    /\ UNCHANGED <<inputVars, buf, werr, fileOps, quota, filterVars, findVars, copyToClipboard,
                   clipboard, idx, selLog, confVars, todo, visited, result, err>>

\* One of the early steps succeeds; os.MkdirTemp creates the clone directory
\* and its removal is deferred.
RunStep ==
    /\ \E k \in 1..Len(EarlySteps) :
          /\ pc = EarlySteps[k]
          /\ pc' = IF k < Len(EarlySteps) THEN EarlySteps[k + 1] ELSE "run"
    /\ steps' = Append(steps, pc)
    /\ tempDir' = IF pc = "mkdirtemp" THEN "exists" ELSE tempDir
    /\ UNCHANGED <<inputVars, writerVars, filterVars, findVars, copyToClipboard, clipboard, idx,
                   selLog, confVars, todo, visited, result, err>>

\* One of the early steps fails: run returns its error wrapped.
RunStepFails ==
    /\ \E k \in 1..Len(EarlySteps) : pc = EarlySteps[k]
    /\ result' = "error"
    /\ err' = Errorf("error in step", {}, New(pc))
    /\ pc' = "exit"
    /\ UNCHANGED <<inputVars, writerVars, filterVars, findVars, runVars, todo, visited>>

\* A return of run that leaves the clone directory behind
RunRemoveAll_Skipped ==
    /\ pc = "exit"
    /\ tempDir = "exists"
    /\ pc' = "returned"
    /\ UNCHANGED <<inputVars, writerVars, filterVars, findVars, runVars, todo, visited, result,
                   err>>

\* defer os.RemoveAll(tempDir): registered first, so it runs last when run
\* returns.
RunRemoveAll ==
    /\ pc = "exit"
    /\ tempDir = "exists"
    /\ tempDir' = "removed"
    /\ pc' = "returned"
    /\ UNCHANGED <<inputVars, writerVars, filterVars, findVars, copyToClipboard, clipboard, idx,
                   steps, selLog, confVars, todo, visited, result, err>>

\* if len(cfg.FileNames) > 0: selected-files mode, else bulk mode
RunStart ==
    /\ pc = "run"
    /\ pc' = IF Len(fileNames) > 0 THEN "find" ELSE "create"
    /\ UNCHANGED <<inputVars, writerVars, filterVars, findVars, runVars, todo, visited, result,
                   err>>

\* Bulk mode, after WriteRepoContentsToFile has returned: its error is
\* returned wrapped; otherwise, if asked for, the output file is read and its
\* content given to the clipboard.
RunBulkReturn ==
    /\ pc = "done"
    /\ IF result = "error"
       THEN /\ err' = Errorf("error writing repository contents to file", {}, err)
            /\ UNCHANGED clipboard
       ELSE /\ clipboard' = IF copyToClipboard THEN <<disk>> ELSE clipboard
            /\ UNCHANGED err
    /\ pc' = "exit"
    /\ UNCHANGED <<inputVars, writerVars, filterVars, findVars, copyToClipboard, idx, tempDir,
                   steps, selLog, confVars, todo, visited, result>>

\* ioutil.ReadFile(outputFile) or clipboard.WriteAll fails: run returns the
\* error, in selected-files mode through the deferred Flush and Close.
RunCopyFails ==
    /\ copyToClipboard
    /\ \/ pc = "done" /\ result = "ok" /\ pc' = "exit"
       \/ pc = "select" /\ idx > Len(fileNames) /\ pc' = "runflush"
    /\ result' = "error"
    /\ err' = New("error copying to clipboard")
    /\ UNCHANGED <<inputVars, writerVars, filterVars, findVars, runVars, todo, visited>>

\* Selected-files mode, after FindFiles: os.Create(outputFile) succeeds and a
\* writer is put over the file.
RunCreate ==
    /\ pc = "found"
    /\ disk' = <<>>
    /\ buf' = <<>>
    /\ werr' = FALSE
    /\ fileOps' = <<"Create">>
    /\ idx' = 1
    /\ result' = "none"
    /\ pc' = "select"
    /\ UNCHANGED <<inputVars, filterVars, findVars, quota, copyToClipboard, clipboard, tempDir,
                   steps, selLog, confVars, todo, visited, err>>

\* Selected-files mode: os.Create(outputFile) fails.
RunCreateFails ==
    /\ pc = "found"
    /\ result' = "error"
    /\ err' = Errorf("unable to create output file", {}, ErrCreate)
    /\ pc' = "exit"
    /\ UNCHANGED <<inputVars, writerVars, filterVars, findVars, runVars, todo, visited>>

\* The three writes of one record in run; a failed write is logged.
runWriteRecord(w, relPath, content) ==
    LET separator == <<"=", "=", "=", " ">> \o relPath \o <<" ", "=", "=", "=", "\n">>
    IN  BufWrite(BufWrite(BufWrite(w, separator), content), <<"\n", "\n">>)

\* fileMatches[fileName], empty when the key is absent
matchesOf(fileName) == IF fileName \in DOMAIN fileMatches THEN fileMatches[fileName] ELSE <<>>

\* One turn of the loop, as selLog keeps it
Turn(fileName, matches, path, written) ==
    [name |-> fileName, matches |-> matches, prompted |-> Len(matches) > 1, path |-> path,
     written |-> written]

\* One turn of the loop over cfg.FileNames: no match is logged; of several
\* matches the user picks one (prompt.SelectFile); the file is read whole and
\* written as a record; a file that cannot be read is logged.
RunSelect ==
    /\ pc = "select"
    /\ idx <= Len(fileNames)
    /\ LET matches == matchesOf(fileNames[idx])
       IN  IF Len(matches) = 0
           THEN /\ selLog' = Append(selLog, Turn(fileNames[idx], matches, <<>>, FALSE))
                /\ UNCHANGED <<buf, disk, werr>>
           ELSE \E choice \in 1..Len(matches) :
                   LET selectedPath == matches[choice]
                       f == FileAt(selectedPath)
                       w == runWriteRecord([buf |-> buf, disk |-> disk, err |-> werr],
                                           JoinPath(selectedPath, sep), f.content)
                   IN  IF f.perm # "ok"
                       THEN /\ selLog' = Append(selLog, Turn(fileNames[idx], matches, selectedPath, FALSE))
                            /\ UNCHANGED <<buf, disk, werr>>
                       ELSE /\ selLog' = Append(selLog, Turn(fileNames[idx], matches, selectedPath, TRUE))
                            /\ buf' = w.buf /\ disk' = w.disk /\ werr' = w.err
    /\ idx' = idx + 1
    /\ UNCHANGED <<inputVars, filterVars, findVars, fileOps, quota, copyToClipboard, clipboard,
                   tempDir, steps, confVars, pc, todo, visited, result, err>>

\* prompt.SelectFile fails (input that is no number, or out of range): run
\* returns the error.
RunSelectFails ==
    /\ pc = "select"
    /\ idx <= Len(fileNames)
    /\ Len(matchesOf(fileNames[idx])) > 1
    /\ result' = "error"
    /\ err' = Errorf("error selecting file for", {}, New("invalid input"))
    /\ pc' = "runflush"
    /\ UNCHANGED <<inputVars, writerVars, filterVars, findVars, runVars, todo, visited>>

\* After the loop: if asked for, the output file is read and its content
\* given to the clipboard; run returns nil.
RunSelectDone ==
    /\ pc = "select"
    /\ idx > Len(fileNames)
    /\ clipboard' = IF copyToClipboard THEN <<disk>> ELSE clipboard
    /\ result' = "ok"
    /\ pc' = "runflush"
    /\ UNCHANGED <<inputVars, writerVars, filterVars, findVars, copyToClipboard, idx, tempDir,
                   steps, selLog, confVars, todo, visited, err>>

\* defer writer.Flush() of run: runs first when run returns.
RunFlush ==
    /\ pc = "runflush"
    /\ LET w == BufFlush([buf |-> buf, disk |-> disk, err |-> werr])
       IN  buf' = w.buf /\ disk' = w.disk /\ werr' = w.err
    /\ fileOps' = Append(fileOps, "Flush")
    /\ pc' = "runclose"
    /\ UNCHANGED <<inputVars, filterVars, findVars, runVars, quota, todo, visited, result, err>>

\* defer outFile.Close() of run
RunClose ==
    /\ pc = "runclose"
    /\ fileOps' = Append(fileOps, "Close")
    /\ pc' = "exit"
    /\ UNCHANGED <<inputVars, filterVars, findVars, runVars, buf, disk, werr, quota, todo,
                   visited, result, err>>

\* cfg.FileNames of run
RunNames ==
    { <<>>, <<n_main_go>>, <<n_README_md, n_main_go>>, <<n_main_go, n_Main_GO>>,
      <<n_main_go, n_main_go>>, <<n_image_png>> }

\* The content of an output file left by an earlier run
OldOutput == c_readme

\* run after the clone: the output file lies outside the fresh temporary
\* directory the repository was cloned into.
InitRun ==
    /\ sep \in Seps
    /\ cfg = Policy(<<>>, <<>>)
    /\ tree \in FindTrees
    /\ outInRoot = FALSE
    /\ denied \in {{}} \cup {{p} : p \in PathsOf(tree, FALSE) \cup DirsOf(tree, FALSE)}
    /\ quota = <<>>
    /\ pc = "flags"
    /\ todo = <<>>
    /\ result = "none"
    /\ err = <<>>
    /\ visited = <<>>
    /\ buf = <<>>
    /\ disk = OldOutput
    /\ werr = FALSE
    /\ fileOps = <<>>
    /\ FilterIdle
    /\ fileNames \in RunNames
    /\ fileMatches = EmptyMap
    /\ returned = "none"
    /\ copyToClipboard \in BOOLEAN
    /\ clipboard = <<>>
    /\ idx = 0
    /\ tempDir = "none"
    /\ steps = <<>>
    /\ selLog = <<>>
    /\ ConfIdle

NextRun ==
    \/ RunStep
    \/ RunStepFails
    \/ RunRemoveAll
    \/ RunStart
    \/ Create
    \/ CreateFails
    \/ WalkDenied
    \/ WalkDir
    \/ WalkFile
    \/ WalkDone
    \/ Flush
    \/ Close
    \/ RunBulkReturn
    \/ RunCopyFails
    \/ FindStart
    \/ FindDenied
    \/ FindDir
    \/ FindFile
    \/ FindDone
    \/ RunCreate
    \/ RunCreateFails
    \/ RunSelect
    \/ RunSelectFails
    \/ RunSelectDone
    \/ RunFlush
    \/ RunClose

SpecRun == InitRun /\ [][NextRun]_vars

---------------------------------------------------------------------------
(* shouldExcludeFile on its own *)

ExcludeLists ==
    { <<>>, <<n_docs>>, <<x_docs_padded>>, <<x_blank, n_docs>>, << <<>> >>,
      <<x_docs_bs_sub>>, <<x_docs_sl_sub>>, <<x_doc>>, <<x_docs_slash>>, <<n_sub, n_docs>> }

\* Entries as util.ParseCommaSeparated leaves them: trimmed and not empty
IncludeLists ==
    { <<>>, <<e_go>>, <<e_GO>>, <<e_nodot_go>>, <<e_go, e_md>>, <<e_md, e_png>>,
      <<e_ipynb>>, <<e_IPYNB>> }

FilterPolicies == {Policy(x, i) : x \in ExcludeLists, i \in IncludeLists}

RelPaths ==
    { n_main_go, n_Main_GO, n_Makefile, n_docs, n_notebook_ipynb, n_Notes_IPYNB,
      p_docs_readme, p_documents_readme, p_docs_bs_readme, p_docs_sub_a,
      p_docs_bs_sub_bs_a, p_docs_sub_mixed, p_docsub, p_a_b_Makefile, p_x_ipynb,
      p_dot }

InitFilter ==
    /\ sep \in Seps
    /\ cfg \in FilterPolicies
    /\ tree = {}
    /\ outInRoot = FALSE
    /\ denied = {}
    /\ quota = <<>>
    /\ pc = "filter"
    /\ todo = <<>>
    /\ result = "none"
    /\ err = <<>>
    /\ visited = <<>>
    /\ WriterIdle
    /\ FilterIdle
    /\ FinderIdle
    /\ RunIdle

\* One call shouldExcludeFile(relPath, cfg)
Judge ==
    /\ pc = "filter"
    /\ fVerdict = "none"
    /\ \E relPath \in RelPaths :
        /\ fRel' = relPath
        /\ fFolder' = (excludedByFolder(relPath, cfg, sep) # 0)
        /\ fVerdict' = IF shouldExcludeFile(relPath, cfg, sep) THEN "true" ELSE "false"
    /\ UNCHANGED <<sep, cfg, tree, outInRoot, denied, pc, todo, buf, disk, result, visited,
                   quota, werr, err, fileOps, findVars, runVars>>

NextFilter == Judge

SpecFilter == InitFilter /\ [][NextFilter]_vars

---------------------------------------------------------------------------
(* The configuration: ParseFlags, PromptForMissingInputs, ExtractRepoName *)

\* strings.IndexByte, counted from 1; 0 when c does not occur
IndexByte(s, c) ==
    IF \E i \in 1..Len(s) : s[i] = c
    THEN CHOOSE i \in 1..Len(s) : s[i] = c /\ \A j \in 1..(i - 1) : s[j] # c
    ELSE 0

\* strings.Split(s, c)
RECURSIVE Split(_, _)
Split(s, c) ==
    LET i == IndexByte(s, c)
    IN  IF i = 0 THEN <<s>> ELSE <<SubSeq(s, 1, i - 1)>> \o Split(SubSeq(s, i + 1, Len(s)), c)

\* strings.TrimSuffix
TrimSuffix(s, suffix) == IF HasSuffix(s, suffix) THEN SubSeq(s, 1, Len(s) - Len(suffix)) ELSE s

\* parseCommaSeparated / util.ParseCommaSeparated: the trimmed, non-empty
\* parts of input; nil and the empty slice are both <<>>
parseCommaSeparated(input) ==
    IF input = <<>> THEN <<>>
    ELSE LET parts      == Split(input, ",")
             trimmed    == [i \in 1..Len(parts) |-> TrimSpace(parts[i])]
             nonEmpty(x) == x # <<>>
         IN  SelectSeq(trimmed, nonEmpty)

\* filepath.Base of a path without volume name
Base(path, hostSep) ==
    IF path = <<>> THEN <<".">>
    ELSE LET keep == {i \in 1..Len(path) : ~IsPathSeparator(path[i], hostSep)}
         IN  IF keep = {} THEN <<hostSep>>
             ELSE LET hi   == CHOOSE i \in keep : \A j \in keep : j <= i
                      seps == {i \in 1..hi : IsPathSeparator(path[i], hostSep)}
                      from == IF seps = {} THEN 1
                              ELSE 1 + CHOOSE i \in seps : \A j \in seps : j <= i
                  IN  SubSeq(path, from, hi)

s_git_at == <<"g", "i", "t", "@">>
s_https == <<"h", "t", "t", "p", "s", ":", "/", "/">>
s_http == <<"h", "t", "t", "p", ":", "/", "/">>
s_dot_git == <<".", "g", "i", "t">>

\* url.Parse(repoURL).Path of a URL with a scheme and without escapes: what
\* follows the host up to '?' or '#'; a space in the host is an error
UrlPath(repoURL) ==
    LET rest   == SubSeq(repoURL, IndexByte(repoURL, ":") + 3, Len(repoURL))
        slash  == IndexByte(rest, "/")
        host   == IF slash = 0 THEN rest ELSE SubSeq(rest, 1, slash - 1)
        tail   == IF slash = 0 THEN <<>> ELSE SubSeq(rest, slash, Len(rest))
        cuts   == {i \in 1..Len(tail) : tail[i] \in {"?", "#"}}
        path   == IF cuts = {} THEN tail
                  ELSE SubSeq(tail, 1, (CHOOSE i \in cuts : \A j \in cuts : i <= j) - 1)
    IN  IF IndexByte(host, " ") # 0 THEN [err |-> TRUE, path |-> <<>>]
        ELSE [err |-> FALSE, path |-> path]

\* ExtractRepoName: [name, err].  strings.SplitN(repoURL, ":", 2) gives two
\* parts exactly when the URL holds a ':', the second being all that follows
\* the first ':'.  filepath.Base never returns "", so the check for an empty
\* name never fires.
ExtractRepoName(repoURL, hostSep) ==
    LET named(repoPath) ==
            LET name == Base(repoPath, hostSep)
            IN  IF name = <<>>
                THEN [name |-> <<>>, err |-> New("could not determine repository name from URL")]
                ELSE [name |-> name, err |-> <<>>]
    IN  IF HasPrefix(repoURL, s_git_at)
        THEN LET parts == Split(repoURL, ":")
             IN  IF Len(parts) < 2
                 THEN [name |-> <<>>, err |-> New("invalid SSH repository URL format")]
                 ELSE named(TrimSuffix(SubSeq(repoURL, IndexByte(repoURL, ":") + 1, Len(repoURL)),
                                       s_dot_git))
        ELSE IF HasPrefix(repoURL, s_https) \/ HasPrefix(repoURL, s_http)
        THEN LET u == UrlPath(repoURL)
             IN  IF u.err
                 THEN [name |-> <<>>, err |-> Errorf("invalid repository URL", {}, New("parse"))]
                 ELSE named(TrimSuffix(u.path, s_dot_git))
        ELSE [name |-> <<>>, err |-> New("invalid repository URL format")]

\* config.NewConfig(): the zero Config; AuthMethod is "None", "HTTPS" or "SSH"
NewConfig ==
    [RepoURL |-> <<>>, AuthMethod |-> "None", Username |-> <<>>, PersonalAccessToken |-> <<>>,
     SSHKeyPath |-> <<>>, SSHPassphrase |-> <<>>, ExcludeFolders |-> <<>>, IncludeExt |-> <<>>,
     FileNames |-> <<>>, OutputDir |-> <<>>, AuthFlagSet |-> FALSE, VersionFlag |-> FALSE,
     CopyToClipboard |-> FALSE, CopyToClipboardSet |-> FALSE]

\* The value flag.Parse leaves in a flag's variable: the one given, else the
\* default
FlagValue(given, default) == IF given = <<>> THEN default ELSE given[1]

s_none == <<"n", "o", "n", "e">>
s_ssh == <<"s", "s", "h">>
s_https_word == <<"h", "t", "t", "p", "s">>

\* A ParseFlags that validates -auth before it looks at -version and takes
\* an empty -auth value as invalid
ParseFlags_ValidateFirst(a) ==
    LET authMethod == FlagValue(a.auth, <<>>)
        lower      == ToLower(authMethod)
        c0 == [NewConfig EXCEPT
                 !.RepoURL = FlagValue(a.repo, <<>>),
                 !.Username = FlagValue(a.username, <<>>),
                 !.PersonalAccessToken = FlagValue(a.pat, <<>>),
                 !.SSHKeyPath = FlagValue(a.sshkey, <<>>),
                 !.OutputDir = FlagValue(a.outputdir, <<>>),
                 !.VersionFlag = FlagValue(a.version, FALSE),
                 !.CopyToClipboard = FlagValue(a.copyclipboard, FALSE),
                 !.CopyToClipboardSet = (a.copyclipboard # <<>>),
                 !.AuthFlagSet = (a.auth # <<>>)]
        c1 == [c0 EXCEPT
                 !.ExcludeFolders = parseCommaSeparated(FlagValue(a.exclude, <<>>)),
                 !.IncludeExt = parseCommaSeparated(FlagValue(a.includeext, <<>>)),
                 !.FileNames = parseCommaSeparated(FlagValue(a.files, <<>>))]
    IN  IF lower \notin {s_https_word, s_ssh, s_none} /\ a.auth # <<>>
        THEN [conf |-> c1, ret |-> "error",
              err |-> New("invalid authentication method: choose from none, https, ssh")]
        ELSE IF c0.VersionFlag THEN [conf |-> c0, ret |-> "exit0", err |-> <<>>]
        ELSE IF lower = s_https_word THEN [conf |-> [c1 EXCEPT !.AuthMethod = "HTTPS"], ret |-> "nil", err |-> <<>>]
        ELSE IF lower = s_ssh THEN [conf |-> [c1 EXCEPT !.AuthMethod = "SSH"], ret |-> "nil", err |-> <<>>]
        ELSE [conf |-> [c1 EXCEPT !.AuthMethod = "None"], ret |-> "nil", err |-> <<>>]

\* cfg.ParseFlags() on a fresh Config and a well-formed command line a:
\* [conf, ret, err] with ret "nil", "error", or "exit0" when -version ends
\* the process with os.Exit(0)
ParseFlags(a) ==
    LET authMethod == FlagValue(a.auth, <<>>)
        lower      == ToLower(authMethod)
        c0 == [NewConfig EXCEPT
                 !.RepoURL = FlagValue(a.repo, <<>>),
                 !.Username = FlagValue(a.username, <<>>),
                 !.PersonalAccessToken = FlagValue(a.pat, <<>>),
                 !.SSHKeyPath = FlagValue(a.sshkey, <<>>),
                 !.OutputDir = FlagValue(a.outputdir, <<>>),
                 !.VersionFlag = FlagValue(a.version, FALSE),
                 !.CopyToClipboard = FlagValue(a.copyclipboard, FALSE),
                 !.CopyToClipboardSet = (a.copyclipboard # <<>>),
                 !.AuthFlagSet = (a.auth # <<>>)]
        c1 == [c0 EXCEPT
                 !.ExcludeFolders = parseCommaSeparated(FlagValue(a.exclude, <<>>)),
                 !.IncludeExt = parseCommaSeparated(FlagValue(a.includeext, <<>>)),
                 !.FileNames = parseCommaSeparated(FlagValue(a.files, <<>>))]
    IN  IF c0.VersionFlag THEN [conf |-> c0, ret |-> "exit0", err |-> <<>>]
        ELSE IF lower = s_https_word THEN [conf |-> [c1 EXCEPT !.AuthMethod = "HTTPS"], ret |-> "nil", err |-> <<>>]
        ELSE IF lower = s_ssh THEN [conf |-> [c1 EXCEPT !.AuthMethod = "SSH"], ret |-> "nil", err |-> <<>>]
        ELSE IF lower = s_none \/ lower = <<>> THEN [conf |-> [c1 EXCEPT !.AuthMethod = "None"], ret |-> "nil", err |-> <<>>]
        ELSE [conf |-> c1, ret |-> "error",
              err |-> New("invalid authentication method: choose from none, https, ssh")]

s_https_github == <<"h", "t", "t", "p", "s", ":", "/", "/", "g", "i", "t", "h", "u", "b", ".", "c", "o", "m", "/">>
s_git_github == <<"g", "i", "t", "@", "g", "i", "t", "h", "u", "b", ".", "c", "o", "m", ":">>

isHTTPSURL(url) == HasPrefix(url, s_https_github)
isSSHURL(url) == HasPrefix(url, s_git_github)

\* The options of the authentication select for a repository URL
authOptions(url) ==
    IF isHTTPSURL(url) THEN {"None", "HTTPS"} ELSE IF isSSHURL(url) THEN {"SSH"} ELSE {}

\* prompt.PromptForMissingInputs(cfg) with the answers ans the user gives to
\* the forms that are shown: [conf, err].  A form fails when the user aborts
\* it (ans.fails = "form", taken at the first form) or when no listed option
\* is chosen; an answer left empty in the output form is the default
\* directory the validator puts in.  ans.encrypted: the key file holds
\* "ENCRYPTED" (isSSHKeyPassphraseProtected).
PromptForMissingInputs(c, ans) ==
    LET c1 == IF c.RepoURL = <<>> THEN [c EXCEPT !.RepoURL = ans.repo] ELSE c
        c2 == IF ~c1.AuthFlagSet THEN [c1 EXCEPT !.AuthMethod = ans.auth] ELSE c1
        c3 == IF c2.AuthMethod = "HTTPS" /\ (c2.Username = <<>> \/ c2.PersonalAccessToken = <<>>)
              THEN [c2 EXCEPT !.Username = ans.username, !.PersonalAccessToken = ans.pat]
              ELSE IF c2.AuthMethod = "SSH" /\ c2.SSHKeyPath = <<>>
              THEN [c2 EXCEPT !.SSHKeyPath = ans.sshkey]
              ELSE c2
        c4 == IF c3.AuthMethod = "SSH" /\ ans.encrypted /\ c3.SSHPassphrase = <<>>
              THEN [c3 EXCEPT !.SSHPassphrase = ans.passphrase] ELSE c3
        c5 == IF c4.OutputDir = <<>>
              THEN [c4 EXCEPT !.OutputDir = ans.outputdir,
                              !.ExcludeFolders = parseCommaSeparated(ans.exclude),
                              !.IncludeExt = parseCommaSeparated(ans.includeext)]
              ELSE c4
        c6 == IF Len(c5.FileNames) = 0
              THEN [c5 EXCEPT !.FileNames = parseCommaSeparated(ans.files)] ELSE c5
        c7 == IF ~c6.CopyToClipboardSet THEN [c6 EXCEPT !.CopyToClipboard = ans.copy] ELSE c6
    IN  IF c.RepoURL = <<>> /\ ans.fails = "form"
        THEN [conf |-> c, err |-> Errorf("repository URL input error", {}, New("form"))]
        ELSE IF ~c1.AuthFlagSet /\ authOptions(c1.RepoURL) = {}
        THEN [conf |-> c1,
              err |-> New("unsupported repository URL format for authentication options")]
        ELSE IF ~c1.AuthFlagSet /\ ans.auth \notin authOptions(c1.RepoURL)
        THEN [conf |-> c1, err |-> Errorf("authentication method input error", {}, New("form"))]
        ELSE IF ans.fails = "mkdir"
        THEN [conf |-> c7, err |-> Errorf("failed to create output directory", {}, New("mkdir"))]
        ELSE [conf |-> c7, err |-> <<>>]

\* Repository URLs: what precedes the path, and the path
UrlPrefixes ==
    { <<"g", "i", "t", "@", "g", "i", "t", "h", "u", "b", ".", "c", "o", "m", ":">>,
      <<"h", "t", "t", "p", "s", ":", "/", "/", "g", "i", "t", "h", "u", "b", ".", "c", "o", "m">>,
      <<"h", "t", "t", "p", ":", "/", "/", "g", "i", "t", "h", "u", "b", ".", "c", "o", "m">>,
      <<"f", "t", "p", ":", "/", "/", "g", "i", "t", "h", "u", "b", ".", "c", "o", "m">>,
      <<"h", "t", "t", "p", "s", ":", "/", "/", "g", "i", "t", " ", "h", "u", "b", ".", "c", "o", "m">>,
      <<>> }

UrlTails ==
    { <<>>,
      <<"/">>,
      <<"/", "u", "s", "e", "r", "/", "r", "e", "p", "o">>,
      <<"/", "u", "s", "e", "r", "/", "r", "e", "p", "o", ".", "g", "i", "t">>,
      <<"/", "u", "s", "e", "r", "/", "r", "e", "p", "o", ".", "g", "i", "t", "/">>,
      <<"/", ".", "g", "i", "t">>,
      <<"u", "s", "e", "r", "/", "r", "e", "p", "o", ".", "g", "i", "t">>,
      <<"i", "n", "v", "a", "l", "i", "d", "-", "u", "r", "l">>,
      <<"/", "u", "s", "e", "r", "/", "r", "e", "p", "o", "?", "t", "a", "b", "=", "r", "e", "a", "d", "m", "e">> }

Urls == {p \o t : p \in UrlPrefixes, t \in UrlTails}

u_repo == <<"h", "t", "t", "p", "s", ":", "/", "/", "g", "i", "t", "h", "u", "b", ".", "c", "o", "m", "/", "u", "s", "e", "r", "/", "r", "e", "p", "o", ".", "g", "i", "t">>
u_ssh_repo == <<"g", "i", "t", "@", "g", "i", "t", "h", "u", "b", ".", "c", "o", "m", ":", "u", "s", "e", "r", "/", "r", "e", "p", "o", ".", "g", "i", "t">>
v_alice == <<"a", "l", "i", "c", "e">>
v_bob == <<"b", "o", "b">>
v_token == <<"t", "o", "k">>
v_key == <<"i", "d", "_", "r", "s", "a">>
v_secret == <<"p", "w">>
v_out == <<"o", "u", "t">>
v_downloads == <<"D", "o", "w", "n", "l", "o", "a", "d", "s">>
l_vendor_docs == <<"v", "e", "n", "d", "o", "r", ",", " ", "d", "o", "c", "s">>
l_node_modules == <<"n", "o", "d", "e", "_", "m", "o", "d", "u", "l", "e", "s">>
l_go == <<".", "g", "o">>
l_md == <<".", "m", "d">>
l_main_go == <<"m", "a", "i", "n", ".", "g", "o">>

\* Values of -auth
AuthValues == { <<"n", "o", "n", "e">>, <<"h", "t", "t", "p", "s">>, <<"s", "s", "h">>, <<"H", "T", "T", "P", "S">>, <<"S", "s", "h">>, <<"b", "a", "s", "i", "c">>, <<>> }

Opt(S) == {<<>>} \cup {<<v>> : v \in S}

NoArgs ==
    [repo |-> <<>>, auth |-> <<>>, username |-> <<>>, pat |-> <<>>, sshkey |-> <<>>,
     outputdir |-> <<>>, exclude |-> <<>>, includeext |-> <<>>, files |-> <<>>,
     version |-> <<>>, copyclipboard |-> <<>>]

\* Command lines: every repository URL with -auth=none; every -auth value
\* with and without -version; every choice of the output and filter flags;
\* the credential flags of each method
ArgsPool ==
    {[NoArgs EXCEPT !.repo = r, !.auth = <<s_none>>, !.outputdir = <<v_out>>,
                    !.copyclipboard = <<FALSE>>, !.files = <<l_main_go>>] : r \in Opt(Urls)}
    \cup {[NoArgs EXCEPT !.repo = <<u_repo>>, !.auth = a, !.version = v]
            : a \in Opt(AuthValues), v \in {<<>>, <<TRUE>>}}
    \cup {[NoArgs EXCEPT !.repo = <<u_repo>>, !.auth = <<s_none>>, !.outputdir = o, !.exclude = x,
                         !.includeext = i, !.files = f, !.copyclipboard = k]
            : o \in Opt({v_out}), x \in Opt({l_vendor_docs}), i \in Opt({l_go}),
              f \in Opt({l_main_go}), k \in Opt(BOOLEAN)}
    \cup {[NoArgs EXCEPT !.repo = <<u_repo>>, !.auth = <<s_https_word>>, !.username = n, !.pat = t,
                         !.outputdir = <<v_out>>]
            : n \in Opt({v_alice}), t \in Opt({v_token})}
    \cup {[NoArgs EXCEPT !.repo = <<u_ssh_repo>>, !.auth = a, !.sshkey = k, !.outputdir = <<v_out>>]
            : a \in Opt({s_ssh}), k \in Opt({v_key})}

\* What the user answers to the forms
Answers ==
    [repo : {u_repo, u_ssh_repo, s_https_github}, auth : {"None", "HTTPS", "SSH"},
     username : {v_alice, v_bob}, pat : {v_token}, sshkey : {v_key}, encrypted : BOOLEAN,
     passphrase : {v_secret}, outputdir : {v_downloads}, exclude : {<<>>, l_node_modules},
     includeext : {<<>>, l_md}, files : {<<>>}, copy : BOOLEAN, fails : {"none", "form", "mkdir"}]

\* run: cfg := config.NewConfig(); cfg.ParseFlags()
RunParseFlags ==
    /\ pc = "flags"
    /\ LET r == ParseFlags(args)
       IN  /\ conf' = r.conf
           /\ err' = IF r.ret = "error" THEN Errorf("error parsing flags", {}, r.err) ELSE <<>>
           /\ result' = IF r.ret = "error" THEN "error" ELSE result
           /\ pc' = IF r.ret = "nil" THEN "prompt" ELSE IF r.ret = "error" THEN "exit" ELSE "halted"
           /\ steps' = IF r.ret = "nil" THEN Append(steps, "flags") ELSE steps
    /\ UNCHANGED <<inputVars, writerVars, filterVars, findVars, copyToClipboard, clipboard, idx,
                   tempDir, selLog, args, before, repoName, todo, visited>>

\* run: prompt.PromptForMissingInputs(cfg)
RunPrompt ==
    /\ pc = "prompt"
    /\ before' = conf
    /\ \E ans \in Answers :
          LET r == PromptForMissingInputs(conf, ans)
          IN  /\ conf' = r.conf
              /\ err' = IF r.err # <<>> THEN Errorf("error prompting for inputs", {}, r.err) ELSE <<>>
              /\ result' = IF r.err # <<>> THEN "error" ELSE result
              /\ pc' = IF r.err # <<>> THEN "exit" ELSE "name"
              /\ steps' = IF r.err # <<>> THEN steps ELSE Append(steps, "prompt")
    /\ UNCHANGED <<inputVars, writerVars, filterVars, findVars, copyToClipboard, clipboard, idx,
                   tempDir, selLog, args, repoName, todo, visited>>

\* run: clone.ExtractRepoName(cfg.RepoURL)
RunExtractRepoName ==
    /\ pc = "name"
    /\ LET r == ExtractRepoName(conf.RepoURL, sep)
       IN  /\ repoName' = r
           /\ err' = IF r.err # <<>> THEN Errorf("error extracting repository name", {}, r.err) ELSE <<>>
           /\ result' = IF r.err # <<>> THEN "error" ELSE result
           /\ pc' = IF r.err # <<>> THEN "exit" ELSE "mkdirtemp"
           /\ steps' = IF r.err # <<>> THEN steps ELSE Append(steps, "name")
    /\ UNCHANGED <<inputVars, writerVars, filterVars, findVars, copyToClipboard, clipboard, idx,
                   tempDir, selLog, args, conf, before, todo, visited>>

InitConfig ==
    /\ sep \in Seps
    /\ cfg = Policy(<<>>, <<>>)
    /\ tree = {}
    /\ outInRoot = FALSE
    /\ denied = {}
    /\ quota = <<>>
    /\ pc = "flags"
    /\ todo = <<>>
    /\ result = "none"
    /\ err = <<>>
    /\ visited = <<>>
    /\ WriterIdle
    /\ FilterIdle
    /\ FinderIdle
    /\ copyToClipboard = FALSE
    /\ clipboard = <<>>
    /\ idx = 0
    /\ tempDir = "none"
    /\ steps = <<>>
    /\ selLog = <<>>
    /\ args \in ArgsPool
    /\ conf = NewConfig
    /\ before = NewConfig
    /\ repoName = <<>>

NextConfig ==
    \/ RunParseFlags
    \/ RunPrompt
    \/ RunExtractRepoName

SpecConfig == InitConfig /\ [][NextConfig]_vars

---------------------------------------------------------------------------
(* Properties of WriteRepoContentsToFile *)

HasDotElement(path) == \E k \in 1..Len(path) : path[k][1] = "."

IsCandidate(v) == v.outcome \in {"excluded", "skipped", "emitted"}

IsEmitted(v) == v.outcome = "emitted"

Emitted == SelectSeq(visited, IsEmitted)

Finished == pc = "done" /\ result = "ok"

rec_main_go ==
    <<"=", "=", "=", " ", "m", "a", "i", "n", ".", "g", "o", " ", "=", "=", "=", "\n",
      "p", "a", "c", "k", "a", "g", "e", " ", "m", "a", "i", "n", "\n", "\n", "\n">>

rec_test_go ==
    <<"=", "=", "=", " ", "t", "e", "s", "t", ".", "g", "o", " ", "=", "=", "=", "\n",
      "p", "a", "c", "k", "a", "g", "e", " ", "m", "a", "i", "n", "\n", "\n", "\n">>

\* C1: no file inside a directory whose name starts with '.', and no file
\* whose own name starts with '.', is taken as a candidate or emitted.
C1_DotEntriesNeverCandidates ==
    \A i \in 1..Len(visited) : IsCandidate(visited[i]) => ~HasDotElement(visited[i].path)

\* C2: scenario C (image.png = 89 50 4E 47 and main.go, include .go and .png)
\* ends with an output holding the main.go record only.
C2_ScenarioC ==
    ( /\ Finished
      /\ cfg = Policy(<<>>, <<e_go, e_png>>)
      /\ tree = {File(<<n_image_png>>, c_png, "ok"), File(<<n_main_go>>, c_package_main, "ok")} )
    => disk = rec_main_go

\* C3: scenario D (notebook.ipynb and main.go, empty policy, output.txt created
\* inside the root) ends with an output of exactly the main.go record.
C3_ScenarioD ==
    ( /\ Finished
      /\ outInRoot
      /\ cfg = Policy(<<>>, <<>>)
      /\ tree = {File(<<n_notebook_ipynb>>, c_cells, "ok"), File(<<n_main_go>>, c_package_main, "ok")} )
    => disk = rec_main_go

\* The bytes one record is specified to consist of
RecordBytes(v) ==
    <<"=", "=", "=", " ">> \o JoinPath(v.path, sep) \o <<" ", "=", "=", "=", "\n">>
        \o v.content \o <<"\n", "\n">>

RECURSIVE ConcatRecords(_)
ConcatRecords(vs) == IF vs = <<>> THEN <<>> ELSE RecordBytes(Head(vs)) \o ConcatRecords(Tail(vs))

\* C4: the bytes given to the output are, for every emitted file in turn,
\* "=== " relPath " ===\n", the file's content unchanged, and two "\n", with
\* nothing before, between or after; after the call they are the file's
\* bytes; a root holding only test.go under include .go yields exactly
\* "=== test.go ===\npackage main\n\n\n".
C4_RecordFormat ==
    /\ disk \o buf = ConcatRecords(Emitted)
    /\ \A i \in 1..Len(visited) :
          (IsEmitted(visited[i]) /\ visited[i].path # OutPath)
              => \E f \in tree : f.path = visited[i].path /\ f.content = visited[i].content
    /\ pc = "done" => buf = <<>>
    /\ (Finished /\ cfg = Policy(<<>>, <<e_go>>) /\ tree = {File(<<n_test_go>>, c_package_main, "ok")})
          => disk = rec_test_go

C4_Witness ==
    /\ Finished
    /\ cfg = Policy(<<>>, <<e_go>>)
    /\ tree = {File(<<n_test_go>>, c_package_main, "ok")}
    /\ outInRoot
    /\ Len(Emitted) = 1
    /\ disk = rec_test_go

\* The first 512 bytes of content hold a null byte
NulInFirst512(content) == \E i \in 1..512 : i <= Len(content) /\ content[i] = "NUL"

InTree(path) == \E f \in tree : f.path = path

TreeFile(path) == CHOOSE f \in tree : f.path = path

Eligible(f) ==
    /\ f.path[Len(f.path)][1] # "."
    /\ ~shouldExcludeFile(JoinPath(f.path, sep), cfg, sep)
    /\ f.perm = "ok"
    /\ ~NulInFirst512(f.content)

\* C10: a file that cannot be opened or read, or is detected as binary, never
\* aborts the run: skipping it is never the step that ends the walk with an
\* error (an error comes only from os.Create or from enumerating the tree), no
\* record is written for it, and a call that returns success has emitted every
\* eligible file of the tree exactly once.
C10_SkipNeverAborts ==
    /\ \A i \in 1..Len(visited) :
          visited[i].outcome = "skipped"
              => /\ i < Len(visited) \/ result # "error"
                 /\ \A j \in 1..Len(visited) :
                       IsEmitted(visited[j]) => visited[j].path # visited[i].path
    /\ result = "error" => (visited = <<>> \/ visited[Len(visited)].outcome = "fatal")
    /\ Finished =>
          \A f \in tree :
              Eligible(f) =>
                  Cardinality({j \in 1..Len(visited) :
                                  /\ IsEmitted(visited[j])
                                  /\ visited[j].path = f.path
                                  /\ visited[j].content = f.content}) = 1

C10_Witness ==
    /\ Finished
    /\ {f.path : f \in tree} = {<<n_broken_go>>, <<n_main_go>>}
    /\ Len(visited) = 3
    /\ visited[2].path = <<n_broken_go>>
    /\ visited[2].outcome = "skipped"
    /\ visited[3].path = <<n_main_go>>
    /\ IsEmitted(visited[3])
    /\ disk = rec_main_go

\* C11: an entry that cannot be enumerated (the root, a directory, a file)
\* ends the call with an error that names the entry's path and wraps the
\* cause: it is the last entry visited, the records given to the output are
\* those of the files emitted before it, and a call that returns success met
\* no such entry.
C11_FatalEnumerationError ==
    /\ \A i \in 1..Len(visited) :
          visited[i].outcome = "fatal" =>
              /\ i = Len(visited)
              /\ result = "error"
              /\ pc \in {"flush", "close", "done"}
              /\ Len(err) = 3
              /\ err[1] = [msg |-> "error walking the path", paths |-> {<<>>}]
              /\ err[2] = [msg |-> "error accessing path", paths |-> {visited[i].path}]
              /\ <<err[3]>> = ErrAccess
              /\ disk \o buf = ConcatRecords(SelectSeq(SubSeq(visited, 1, i - 1), IsEmitted))
    /\ Finished => denied = {}

C11_Witness ==
    /\ pc = "done"
    /\ result = "error"
    /\ {f.path : f \in tree} = {<<n_main_go>>, <<n_sub, n_a_go>>}
    /\ denied = {<<n_sub>>}
    /\ Len(visited) = 3
    /\ IsEmitted(visited[2])
    /\ visited[3] = Visit(<<n_sub>>, "fatal", <<>>)
    /\ disk = rec_main_go

\* C12: a call that returns success has every byte of every emitted record
\* in the output file.
C12_NoSilentTruncation == (pc = "done" /\ result = "ok") => disk = ConcatRecords(Emitted)

\* The calls on the output file and its writer, in the order claimed
FlushThenClose == <<"Create", "Flush", "Close">>

\* C13: a call that created the output file ends, on every exit path, with
\* one Flush of the writer followed by the Close of the file, and nothing
\* comes between or before; a call whose os.Create failed ends with that
\* error and has visited nothing.
C13_FlushOnceBeforeClose ==
    /\ \E k \in 0..3 : fileOps = SubSeq(FlushThenClose, 1, k)
    /\ fileOps = <<>> => visited = <<>>
    /\ pc = "done" =>
          \/ fileOps = FlushThenClose /\ result \in {"ok", "error"}
          \/ /\ fileOps = <<>>
             /\ result = "error"
             /\ err = Errorf("unable to create output file", {}, ErrCreate)

C13_Witness ==
    /\ pc = "done"
    /\ result = "error"
    /\ Len(visited) > 0
    /\ visited[Len(visited)].outcome = "writefail"
    /\ werr
    /\ fileOps = FlushThenClose

\* One record with the path written with forward slashes
SlashRecordBytes(v) ==
    <<"=", "=", "=", " ">> \o JoinPath(v.path, "/") \o <<" ", "=", "=", "=", "\n">>
        \o v.content \o <<"\n", "\n">>

RECURSIVE ConcatSlashRecords(_)
ConcatSlashRecords(vs) ==
    IF vs = <<>> THEN <<>> ELSE SlashRecordBytes(Head(vs)) \o ConcatSlashRecords(Tail(vs))

\* C14: every separator line given to the output carries the root-relative
\* path with forward slashes only, whatever the host's separator is.
C14_ForwardSlashSeparators == disk \o buf = ConcatSlashRecords(Emitted)

\* Path p comes before path q in a depth-first walk that lists every
\* directory in lexical order: p is an ancestor of q, or at the first element
\* where they differ p's name is the smaller.
WalkBefore(p, q) ==
    \/ IsProperPrefix(p, q)
    \/ \E k \in 1..Min(Len(p), Len(q)) :
          /\ SubSeq(p, 1, k - 1) = SubSeq(q, 1, k - 1)
          /\ StrLess(p[k], q[k])

RECURSIVE WalkOrder(_)
WalkOrder(S) ==
    IF S = {} THEN <<>>
    ELSE LET m == CHOOSE x \in S : \A y \in S \ {x} : WalkBefore(x, y)
         IN  <<m>> \o WalkOrder(S \ {m})

\* The writer after the eligible files among paths were written in turn
RECURSIVE Replay(_, _)
Replay(paths, w) ==
    IF paths = <<>> THEN w
    ELSE LET p == Head(paths)
             f == IF outInRoot /\ p = OutPath THEN File(p, w.disk, "ok") ELSE TreeFile(p)
         IN  Replay(Tail(paths),
                    IF Eligible(f) THEN writeFileContent(w, JoinPath(p, sep), f.content).w ELSE w)

\* The output as a function of the tree, the contents, the policy and the host
ExpectedOutput ==
    LET w == Replay(WalkOrder(PathsOf(tree, outInRoot)), [buf |-> <<>>, disk |-> <<>>, err |-> FALSE])
    IN  w.disk \o w.buf

\* C15: the entries are visited depth-first with every directory's entries
\* in lexical order, the bytes given to the output are the records of the
\* emitted files in that order, and the output of a call that returns
\* success is a function of the tree, the contents, the policy and the host:
\* two runs on the same inputs end with the same bytes.
C15_DeterministicWalkOrder ==
    /\ \A i, j \in 1..Len(visited) : i < j => WalkBefore(visited[i].path, visited[j].path)
    /\ disk \o buf = ConcatRecords(Emitted)
    /\ Finished => disk = ExpectedOutput

C15_Witness ==
    /\ Finished
    /\ Len(Emitted) = 2
    /\ Emitted[1].path = <<n_docs, n_README_md>>
    /\ Emitted[2].path = <<n_main_go>>
    /\ disk = ExpectedOutput
    /\ disk = RecordBytes(Emitted[1]) \o RecordBytes(Emitted[2])

\* The entries of the tree below the root, the root included
Entries == PathsOf(tree, outInRoot) \cup DirsOf(tree, outInRoot)

VisitedPaths == {visited[i].path : i \in 1..Len(visited)}

\* The entries the walk has still to reach: those queued and all below them
Ahead(e) == \E k \in 1..Len(todo) : todo[k] = e \/ IsProperPrefix(todo[k], e)

\* Steps left at most: five per entry not yet visited, and the steps of the
\* return
Rank == CASE pc = "create" -> 4 [] pc = "walking" -> 3 [] pc = "flush" -> 2
          [] pc = "close" -> 1 [] OTHER -> 0

Measure == 5 * (Cardinality(Entries) - Len(visited)) + Rank

\* What holds in every state of a call; while the walk has entries queued
\* the next one is an entry of the tree, so that one of WalkDenied, WalkDir
\* and WalkFile can be taken.
WalkStates ==
    /\ pc \in {"create", "walking", "flush", "close", "done"}
    /\ Measure >= 0
    /\ pc = "walking" /\ todo # <<>> => Head(todo) \in Entries
    /\ pc \in {"create", "walking"} => result = "none"
    /\ pc \in {"flush", "close", "done"} => result \in {"ok", "error"}
    /\ result = "error" <=> err # <<>>
    /\ VisitedPaths \subseteq Entries
    /\ \A i, j \in 1..Len(visited) : visited[i].path = visited[j].path => i = j
    /\ pc = "walking" => \A e \in Entries : (e \in VisitedPaths) # Ahead(e)
    /\ result = "ok" => VisitedPaths = Entries
    /\ \A i \in 1..Len(visited) :
          LET v == visited[i]
          IN  \/ IsDir(v.path) /\ v.outcome = "dir"
              \/ ~IsDir(v.path) /\ v.outcome \in {"hidden", "excluded", "skipped", "emitted"}
              \/ v.outcome \in {"fatal", "writefail"} /\ i = Len(visited) /\ result = "error"

\* C25: WriteRepoContentsToFile goes from Init through Walking to Done or
\* Aborted and terminates: every step brings the end nearer, a step is
\* possible until the call has returned, no entry is visited twice, every
\* entry is either visited or still ahead of the walk, a walk that succeeds
\* has visited every entry, every visited file is skipped or emitted unless
\* it is the entry that aborts the walk, and the call ends in success or
\* with an error.
C25_WalkTerminates == [][WalkStates /\ WalkStates' /\ Measure' < Measure]_vars

C25_Witness ==
    /\ Finished
    /\ Cardinality(Entries) = 4
    /\ VisitedPaths = Entries
    /\ \E i \in 1..Len(visited) : visited[i].outcome = "skipped"
    /\ \E i \in 1..Len(visited) : visited[i].outcome = "emitted"

C25_WitnessAborted ==
    /\ pc = "done"
    /\ result = "error"
    /\ VisitedPaths # Entries
    /\ visited # <<>>

\* The visit a step adds to visited
LastVisit == visited'[Len(visited')]

\* C28: every step of a run without write failure leaves the bytes handed
\* to the writer as they are, or appends one complete record (separator,
\* the file's whole content, two newlines) of a file that has no record yet;
\* the visit of a file whose read fails leaves them as they are.
C28_WholeRecordsOnly ==
    [][ \/ pc = "create"
        \/ /\ disk' \o buf' = disk \o buf
           /\ Len(visited') > Len(visited) => LastVisit.outcome # "emitted"
        \/ /\ Len(visited') = Len(visited) + 1
           /\ LastVisit.outcome = "emitted"
           /\ ~IsDir(LastVisit.path)
           /\ readFileContent(FileAt(LastVisit.path)).err = "nil"
           /\ disk' \o buf' = disk \o buf \o RecordBytes([path |-> LastVisit.path,
                                                         content |-> FileAt(LastVisit.path).content])
           /\ \A i \in 1..Len(visited) : visited[i].path # LastVisit.path ]_vars

C28_Witness ==
    /\ Finished
    /\ Len(Emitted) = 1
    /\ \E i \in 1..Len(visited) :
          /\ visited[i].outcome = "skipped"
          /\ FileAt(visited[i].path).perm = "readerr"
    /\ disk = ConcatRecords(Emitted)

---------------------------------------------------------------------------
(* Properties of shouldExcludeFile *)

Judged == fVerdict # "none"

\* s with every backslash written as a forward slash
Slashed(s) == [i \in 1..Len(s) |-> IF s[i] = "\\" THEN "/" ELSE s[i]]

\* s with the host's separator written as a forward slash
HostSlashed(s) == [i \in 1..Len(s) |-> IF s[i] = sep THEN "/" ELSE s[i]]

\* Some exclusion entry e, trimmed and not empty, has p = e or p starting with
\* e + "/", both taken in the form norm gives them.
FolderRuleSays(norm(_)) ==
    \E i \in 1..Len(cfg.ExcludeFolders) :
        LET e == norm(TrimSpace(cfg.ExcludeFolders[i]))
            p == norm(fRel)
        IN  e # <<>> /\ (p = e \/ HasPrefix(p, e \o <<"/">>))

ExtAllowListed ==
    \E i \in 1..Len(cfg.IncludeExt) : EqualFold(cfg.IncludeExt[i], Ext(fRel, sep))

\* C6: under a non-empty allow-list, a file that matches an excluded folder is
\* excluded even if its extension is allow-listed, and a file whose extension
\* is not allow-listed is excluded even if no folder matches.
C6_AllowListPrecedence ==
    (Judged /\ Len(cfg.IncludeExt) > 0) =>
        /\ fFolder => fVerdict = "true"
        /\ ~ExtAllowListed => fVerdict = "true"

C6_Witness ==
    /\ Judged
    /\ cfg = Policy(<<n_docs>>, <<e_go, e_md>>)
    /\ fRel = p_docs_readme
    /\ fFolder
    /\ ExtAllowListed
    /\ fVerdict = "true"

EndsWithIpynb == HasSuffix(ToLower(fRel), <<".", "i", "p", "y", "n", "b">>)

\* C7: with no excluded folders and no allow-list the verdict is "excluded"
\* iff the lower-cased path ends with ".ipynb"; under a non-empty allow-list
\* the built-in rule is not applied: a ".ipynb" file that no folder rule
\* matches is included iff ".ipynb" is allow-listed.
C7_DefaultRule ==
    Judged =>
        /\ (Len(cfg.ExcludeFolders) = 0 /\ Len(cfg.IncludeExt) = 0)
              => (fVerdict = "true" <=> EndsWithIpynb)
        /\ (Len(cfg.IncludeExt) > 0 /\ ~fFolder /\ EndsWithIpynb)
              => (fVerdict = "false" <=>
                    \E i \in 1..Len(cfg.IncludeExt) :
                        EqualFold(cfg.IncludeExt[i], <<".", "i", "p", "y", "n", "b">>))

C7_Witness ==
    /\ Judged
    /\ cfg = Policy(<<>>, <<>>)
    /\ fRel = n_Notes_IPYNB
    /\ fVerdict = "true"

\* The file named by fRel has no extension: no '.' in its last path element
NoExtension == Ext(fRel, sep) = <<>>

\* C8: under a non-empty allow-list and with no folder match, a file is
\* excluded iff its extension equals no entry when letter case is ignored:
\* Main.GO is included under [".go"] and under [".GO"], a file without
\* extension is excluded, and the entry "go" matches nothing.
C8_ExtensionRule ==
    (Judged /\ Len(cfg.IncludeExt) > 0 /\ ~fFolder) =>
        /\ fVerdict = "true" <=> ~ExtAllowListed
        /\ (fRel = n_Main_GO /\ cfg.IncludeExt \in {<<e_go>>, <<e_GO>>}) => fVerdict = "false"
        /\ NoExtension => fVerdict = "true"
        /\ cfg.IncludeExt = <<e_nodot_go>> => fVerdict = "true"

C8_Witness ==
    /\ Judged
    /\ ~fFolder
    /\ fRel = n_Main_GO
    /\ cfg.IncludeExt = <<e_GO>>
    /\ fVerdict = "false"

---------------------------------------------------------------------------
(* Properties of FindFiles *)

FindReturned == pc = "found"

\* C16: FindFiles with an empty name list returns an error and a nil map and
\* does not walk the tree.
C16_EmptyNameList ==
    /\ (FindReturned /\ Len(fileNames) = 0) =>
          /\ result = "error"
          /\ err = New("no file names provided to search for")
          /\ returned = "nil"
          /\ DOMAIN fileMatches = {}
    /\ Len(fileNames) = 0 => (visited = <<>> /\ todo = <<>> /\ pc # "finding")

C16_Witness ==
    /\ FindReturned
    /\ fileNames = <<>>
    /\ tree # {}
    /\ result = "error"
    /\ returned = "nil"
    /\ visited = <<>>

\* The paths of the visited files whose base name equals name when letter
\* case is ignored, in discovery order
FoundFor(name) ==
    LET hit(v) == v.outcome = "file" /\ EqualFold(BaseName(v.path), name)
        hits   == SelectSeq(visited, hit)
    IN  [i \in 1..Len(hits) |-> hits[i].path]

\* C17: FindFiles with a non-empty name list returns no error and a map that
\* holds, for every requested name, exactly the paths of the visited files
\* whose base name equals it ignoring case, in discovery order; a name that
\* matches nothing is no key of the map, and the map has no other keys.
C17_ExactNameMatches ==
    (FindReturned /\ Len(fileNames) > 0) =>
        /\ result = "ok"
        /\ returned = "map"
        /\ DOMAIN fileMatches \subseteq {fileNames[i] : i \in 1..Len(fileNames)}
        /\ \A i \in 1..Len(fileNames) :
              LET name == fileNames[i]
              IN  IF Len(FoundFor(name)) = 0 THEN name \notin DOMAIN fileMatches
                  ELSE name \in DOMAIN fileMatches /\ fileMatches[name] = FoundFor(name)

\* C18: no path in the map FindFiles returns has an element that starts
\* with '.'.
C18_NoDotComponent ==
    \A name \in DOMAIN fileMatches :
        \A i \in 1..Len(fileMatches[name]) : ~HasDotElement(fileMatches[name][i])

\* No entry on the way from the root to path p, p included, is one that
\* cannot be accessed
Accessible(p) == \A k \in 0..Len(p) : SubSeq(p, 1, k) \notin denied

\* C19: with at least one requested name FindFiles returns the map and a nil
\* error whatever entry cannot be accessed: that entry is logged, every file
\* not below it is still visited, and every such file whose name is
\* requested is in the map.
C19_AccessErrorsSkipped ==
    /\ \A i \in 1..Len(visited) :
          visited[i].outcome = "logged" => (visited[i].path \in denied /\ result # "error")
    /\ (FindReturned /\ Len(fileNames) > 0) =>
          /\ result = "ok"
          /\ err = <<>>
          /\ returned = "map"
          /\ \A f \in tree :
                Accessible(f.path) =>
                    /\ \E i \in 1..Len(visited) :
                          visited[i].path = f.path /\ visited[i].outcome \in {"file", "hidden"}
                    /\ \A n \in 1..Len(fileNames) :
                          (f.path[Len(f.path)][1] # "." /\ EqualFold(BaseName(f.path), fileNames[n]))
                              => /\ fileNames[n] \in DOMAIN fileMatches
                                 /\ \E j \in 1..Len(fileMatches[fileNames[n]]) :
                                       fileMatches[fileNames[n]][j] = f.path

C19_Witness ==
    /\ FindReturned
    /\ result = "ok"
    /\ fileNames = <<n_README_md, n_main_go>>
    /\ {f.path : f \in tree} = {<<n_docs, n_README_md>>, <<n_main_go>>}
    /\ denied = {<<n_docs>>}
    /\ Len(visited) = 3
    /\ visited[2] = Visit(<<n_docs>>, "logged", <<>>)
    /\ visited[3].outcome = "file"
    /\ DOMAIN fileMatches = {n_main_go}
    /\ fileMatches[n_main_go] = << <<n_main_go>> >>

\* C29: in the map FindFiles returns, no path occurs twice in the list of
\* a name, whatever the list of requested names.
C29_PathsOncePerName ==
    FindReturned =>
        \A name \in DOMAIN fileMatches :
            \A i, j \in 1..Len(fileMatches[name]) :
                fileMatches[name][i] = fileMatches[name][j] => i = j

---------------------------------------------------------------------------
(* Properties of run *)

\* C20: when run has returned nil and the clipboard was written, its text is
\* the content the output file has after the run.
C20_ClipboardIsFinalOutput ==
    (pc = "exit" /\ result = "ok" /\ clipboard # <<>>) => clipboard[1] = disk

\* The turns of the loop that wrote a record, as visits of their files
WrittenTurns ==
    LET wrote(t) == t.written
        ts       == SelectSeq(selLog, wrote)
    IN  [i \in 1..Len(ts) |-> [path |-> ts[i].path, content |-> FileAt(ts[i].path).content]]

SelectedMode == Len(fileNames) > 0

\* C21: in selected-files mode the turns of the loop follow the requested
\* names in order, one turn and at most one record per name: a name one file
\* matches is written without a prompt, a name several files match is
\* prompted for and the picked file is written, a name no file matches writes
\* nothing; the output is the records of the written turns, each under the
\* path of its file relative to the clone root.
C21_OneRecordPerName ==
    /\ Len(selLog) <= Len(fileNames)
    /\ \A i \in 1..Len(selLog) :
          LET t     == selLog[i]
              found == FoundFor(t.name)
          IN  /\ t.name = fileNames[i]
              /\ Len(found) = 0 => ~t.written
              /\ Len(found) = 1 => (~t.prompted /\ t.path = found[1])
              /\ Len(found) > 1 => (t.prompted /\ \E k \in 1..Len(found) : t.path = found[k])
    /\ (SelectedMode /\ fileOps # <<>>) => disk \o buf = ConcatRecords(WrittenTurns)

\* C26: in selected-files mode no file whose first 512 bytes hold a null byte
\* is written to the output.
C26_SelectedSkipsBinary ==
    \A i \in 1..Len(selLog) :
        selLog[i].written => ~NulInFirst512(FileAt(selLog[i].path).content)

\* run has returned and its deferred calls have run
RunReturned == pc = "returned" \/ (pc = "exit" /\ tempDir = "none")

C30_OutputCreatedAfterClone ==
    /\ fileOps # <<>> =>
          /\ steps = EarlySteps
          /\ SelectedMode => returned = "map"
    /\ fileOps = <<>> => (disk = OldOutput /\ buf = <<>>)

C30_Witness ==
    /\ RunReturned
    /\ result = "error"
    /\ Len(steps) = 5
    /\ fileOps = <<>>
    /\ disk = OldOutput

C30_WitnessCreated ==
    /\ pc = "returned"
    /\ result = "ok"
    /\ SelectedMode
    /\ fileOps # <<>>
    /\ disk # OldOutput

---------------------------------------------------------------------------
(* Properties of the configuration *)

\* PromptForMissingInputs has returned
Prompted == (pc \in {"name", "mkdirtemp"} \/ (pc = "exit" /\ steps = <<"flags">>)) /\ args # <<>>

\* C22: after PromptForMissingInputs every Config value that a flag had
\* supplied is what it was before the call: the repository URL, the auth
\* method when -auth was passed, the credentials, the output directory, the
\* folders to exclude, the extensions to include, the file names, and the
\* clipboard choice when -copy-clipboard was passed.
C22_PromptKeepsSupplied ==
    Prompted =>
        /\ before.RepoURL # <<>> => conf.RepoURL = before.RepoURL
        /\ before.AuthFlagSet => conf.AuthMethod = before.AuthMethod
        /\ before.Username # <<>> => conf.Username = before.Username
        /\ before.PersonalAccessToken # <<>> => conf.PersonalAccessToken = before.PersonalAccessToken
        /\ before.SSHKeyPath # <<>> => conf.SSHKeyPath = before.SSHKeyPath
        /\ before.OutputDir # <<>> => conf.OutputDir = before.OutputDir
        /\ before.ExcludeFolders # <<>> => conf.ExcludeFolders = before.ExcludeFolders
        /\ before.IncludeExt # <<>> => conf.IncludeExt = before.IncludeExt
        /\ before.FileNames # <<>> => conf.FileNames = before.FileNames
        /\ before.CopyToClipboardSet => conf.CopyToClipboard = before.CopyToClipboard

\* The part of a repository URL that names the repository: what follows the
\* first ':' of an SSH URL, the path of an HTTP(S) URL
RepoPathOf(u) ==
    IF HasPrefix(u, s_git_at) THEN SubSeq(u, IndexByte(u, ":") + 1, Len(u)) ELSE UrlPath(u).path

\* The last non-empty segment of the repository path, without a trailing
\* ".git"; <<>> when there is none
LastSegment(u) ==
    LET nonEmpty(x) == x # <<>>
        segs        == SelectSeq(Split(RepoPathOf(u), "/"), nonEmpty)
    IN  IF segs = <<>> THEN <<>> ELSE TrimSuffix(segs[Len(segs)], s_dot_git)

SupportedUrl(u) == HasPrefix(u, s_git_at) \/ HasPrefix(u, s_https) \/ HasPrefix(u, s_http)

MalformedUrl(u) ==
    \/ HasPrefix(u, s_git_at) /\ IndexByte(u, ":") = 0
    \/ (HasPrefix(u, s_https) \/ HasPrefix(u, s_http)) /\ UrlPath(u).err

\* C23: ExtractRepoName returns, for a URL that starts with git@, https://
\* or http://, the last path segment without a trailing ".git", and an error
\* for every other input and for every URL without a repository segment to
\* take the name from.
C23_RepoNameOrError ==
    repoName # <<>> =>
        LET u == conf.RepoURL
        IN  IF ~SupportedUrl(u) \/ MalformedUrl(u) \/ LastSegment(u) = <<>>
            THEN repoName.err # <<>>
            ELSE repoName.err = <<>> /\ repoName.name = LastSegment(u)

\* ParseFlags has returned or has ended the process
FlagsParsed == (pc \in {"prompt", "halted"} \/ (pc = "exit" /\ steps = <<>>)) /\ args # <<>>

\* The method -auth names
NamedAuth(v) ==
    IF ToLower(v) = s_https_word THEN "HTTPS" ELSE IF ToLower(v) = s_ssh THEN "SSH" ELSE "None"

\* What ParseFlags leaves for the flags that are absent
AbsentFlagsEmpty ==
    /\ args.auth = <<>> => (conf.AuthMethod = "None" /\ ~conf.AuthFlagSet)
    /\ args.exclude = <<>> => conf.ExcludeFolders = <<>>
    /\ args.includeext = <<>> => conf.IncludeExt = <<>>
    /\ args.outputdir = <<>> => conf.OutputDir = <<>>
    /\ args.copyclipboard = <<>> => ~conf.CopyToClipboard

C24_WitnessVersion ==
    /\ pc = "halted"
    /\ args.auth = << <<"b", "a", "s", "i", "c">> >>

====
